---- MODULE Spec2Model ----
\* Firmament flow scheduler: the scheduling driver (FlowScheduler and its
\* predecessor QuincyScheduler), modelled as a multi-threaded state machine
\* around the recursive scheduling_lock_.
EXTENDS Integers, Sequences, FiniteSets, TLC

\* ------------------------------------------------------------ bounds
\* entry-point calls made in one behaviour
MaxCalls == 3
MaxSelector == 9
\* rows written to task_events, and the latest timestamp, in one trace
MaxRows == 3
MaxTime == 2

\* the cluster: two tasks, two processing units, two caller threads
Tasks == {1, 2}
PUs == {1, 2}
Threads == {1, 2}
NumTasks == Cardinality(Tasks)

\* job owning a task (TaskDescriptor::job_id): task 1 is job 1's, the rest job 2's
JobOf(task) == IF task = 1 THEN 1 ELSE 2
Jobs == {JobOf(task) : task \in Tasks}
TasksOf(job) == {task \in Tasks : JobOf(task) = job}

VARIABLES
  time_costs,         \* FlowScheduler: last_updated_time_dependent_costs_ and the last revisit
  cost_model,         \* SimulatedQuincyCostModel: arguments, filesystem, per-task maps
  trace,              \* GenerateTrace: flag, clock, maps and the rows written
  ctor,               \* the constructor: position, selector flag, cost_model_, flow_graph_
  variant,            \* "flow" (FlowScheduler) or "quincy" (QuincyScheduler)
  delegated,          \* tasks whose descriptor has_delegated_from()
  aborted,            \* a CHECK / LOG(FATAL) has ended the process
  lock_owner,         \* scheduling_lock_: {} or {thread}
  lock_count,         \* scheduling_lock_: recursion depth
  task_state,         \* task_map_: TaskDescriptor::state
  task_bindings,      \* task_bindings_: partial map task -> resource
  job_state,          \* job_map_: JobDescriptor::state
  jobs_to_schedule,   \* jobs_to_schedule_
  resource_map,       \* resource_map_: registered PUs
  node_type,          \* flow_graph_: type_ of each task's node ("NONE": no node)
  node_arc,           \* flow_graph_: the PU a scheduled task node's arc leads to
  graph_pus,          \* flow_graph_: PU nodes
  seq_num,            \* solver_dispatcher_->seq_num()
  in_solver,          \* threads inside the dispatcher's Run()
  calls,              \* entry-point calls made so far
  th                  \* per thread: position and locals of the running entry point

vars == <<time_costs, cost_model, trace, ctor, variant, delegated, aborted, lock_owner, lock_count, task_state, task_bindings,
          job_state, jobs_to_schedule, resource_map, node_type, node_arc,
          graph_pus, seq_num, in_solver, calls, th>>

\* ------------------------------------------------------------ helpers
RECURSIVE AscSeq(_)
AscSeq(S) ==
  IF S = {} THEN <<>>
  ELSE LET m == CHOOSE x \in S : \A y \in S : x <= y
       IN <<m>> \o AscSeq(S \ {m})

Range(s) == {s[i] : i \in DOMAIN s}

MapPut(m, k, v) == [x \in (DOMAIN m) \cup {k} |-> IF x = k THEN v ELSE m[x]]
MapErase(m, k) == [x \in (DOMAIN m) \ {k} |-> m[x]]

\* ------------------------------------------------------------ flow graph nodes
\* The sink is the first node of the graph; task and PU nodes follow.
SinkNode == 1
TaskNodeId(task) == SinkNode + task
PUNodeId(pu) == SinkNode + NumTasks + pu
TaskNodes == {TaskNodeId(task) : task \in Tasks}
PUNodes == {PUNodeId(pu) : pu \in PUs}
NodeTask(n) == n - SinkNode
NodePU(n) == n - SinkNode - NumTasks

\* flow_graph_->Node(id)->type_
NodeTypeOf(n) ==
  IF n = SinkNode THEN "SINK"
  ELSE IF n \in TaskNodes THEN node_type[NodeTask(n)]
  ELSE "PU"

TaskNodeTypes == {"SCHEDULED_TASK", "UNSCHEDULED_TASK", "ROOT_TASK"}

\* ------------------------------------------------------------ the lock
\* boost::lock_guard<boost::recursive_mutex> lock(scheduling_lock_):
\* the mutex can be taken when free or already held by this thread.
CanLockAlways(t) == TRUE
CanLock(t) == lock_owner \subseteq {t}

\* ------------------------------------------------------------ thread frames
IdleFrame ==
  [pc |-> "idle", op |-> "none", h |-> "none", ctx |-> "none",
   task |-> 1, res |-> 1, job |-> 1,
   jds_ptr |-> <<>>, run_scheduler |-> FALSE, num_scheduled_tasks |-> 0,
   task_mappings |-> <<>>, it |-> 1, deltas |-> <<>>, d_it |-> 1,
   num_scheduled |-> 0, old_res_id |-> {},
   \* history of the running call, for stating properties
   entry |-> <<>>, iter_entry |-> <<>>, h_entry |-> <<>>, applied |-> <<>>, all_deltas |-> <<>>,
   rsi_calls |-> 0, aojn_calls |-> 0, warned |-> <<>>, warn_count |-> 0,
   fg_last |-> <<>>, abort_at |-> "none",
   \* the steps of the running scheduling iteration, in the order they were made
   steps |-> <<>>]

\* what an entry point finds when it starts
Snapshot ==
  [bindings |-> task_bindings, nodes |-> node_type, seq |-> seq_num,
   queue |-> jobs_to_schedule, states |-> task_state]

\* Tasks delegated from another coordinator run here from the start; they
\* have no node in the flow graph. Only FlowScheduler looks at the flag.
DelegatedPU == CHOOSE pu \in PUs : \A other \in PUs : pu <= other
DelegatedTask == CHOOSE task \in Tasks : \A other \in Tasks : task >= other
DelegatedAtStart(v, registered) ==
  IF v = "flow" /\ DelegatedPU \in registered THEN {{}, {DelegatedTask}} ELSE {{}}

\* ------------------------------------------------------------ construction
\* values of FLAGS_flow_scheduling_cost_model, as the flag's description lists them
COST_MODEL_TRIVIAL == 0
COST_MODEL_RANDOM == 1
COST_MODEL_SJF == 2
COST_MODEL_QUINCY == 3
COST_MODEL_WHARE == 4
COST_MODEL_COCO == 5
COST_MODEL_OCTOPUS == 6
COST_MODEL_VOID == 7
COST_MODEL_SIMULATED_QUINCY == 8

\* the flag is an int32: the values tried are -1 .. MaxSelector
Selectors == (0 - 1) .. MaxSelector

\* the constructor's switch: the cost model it creates, or "FATAL" for the
\* default branch
CostModelSwitchFallback(selector) ==
  CASE selector = COST_MODEL_RANDOM -> "RandomCostModel"
    [] selector = COST_MODEL_COCO -> "CocoCostModel"
    [] selector = COST_MODEL_SJF -> "SJFCostModel"
    [] selector = COST_MODEL_QUINCY -> "QuincyCostModel"
    [] selector = COST_MODEL_WHARE -> "WhareMapCostModel"
    [] selector = COST_MODEL_OCTOPUS -> "OctopusCostModel"
    [] OTHER -> "TrivialCostModel"
CostModelSwitch(selector) ==
  CASE selector = COST_MODEL_TRIVIAL -> "TrivialCostModel"
    [] selector = COST_MODEL_RANDOM -> "RandomCostModel"
    [] selector = COST_MODEL_COCO -> "CocoCostModel"
    [] selector = COST_MODEL_SJF -> "SJFCostModel"
    [] selector = COST_MODEL_QUINCY -> "QuincyCostModel"
    [] selector = COST_MODEL_WHARE -> "WhareMapCostModel"
    [] selector = COST_MODEL_OCTOPUS -> "OctopusCostModel"
    [] OTHER -> "FATAL"

\* the constructor before its body runs, and once it has returned
NewScheduler(selector) ==
  [pc |-> "switch", selector |-> selector, cost_model |-> "none",
   flow_graph |-> FALSE, dispatcher |-> FALSE]
Constructed(selector) ==
  [pc |-> "done", selector |-> selector, cost_model |-> CostModelSwitch(selector),
   flow_graph |-> TRUE, dispatcher |-> TRUE]

\* GenerateTrace::GenerateTrace: the maps are empty and nothing is written;
\* now is the latest value read from time_manager_
NewGenerateTrace(flag) ==
  [generate_trace |-> flag, now |-> 0, open |-> TRUE,
   task_to_job |-> <<>>, job_num_tasks |-> <<>>, task_to_runtime |-> <<>>,
   task_events |-> <<>>, task_runtime_events |-> {}, jobs_num_tasks |-> {},
   machine_events |-> <<>>, fatal |-> "none"]

\* SimulatedQuincyCostModel::SimulatedQuincyCostModel: the arguments are
\* stored and the per-task maps are empty; every machine is in the filesystem
NewCostModel(args) ==
  [proportion_machine_preferred |-> args.delta_preferred_machine,
   proportion_rack_preferred |-> args.delta_preferred_rack,
   core_transfer_cost |-> args.transfer_costs[1],
   tor_transfer_cost |-> args.transfer_costs[2],
   machines_per_rack |-> args.machines_per_rack,
   placement |-> args.placement, dfs_machines |-> UNION {args.placement[f] : f \in DOMAIN args.placement},
   file_map |-> <<>>, preferred_machine_map |-> <<>>, preferred_rack_map |-> <<>>,
   cluster_aggregator_cost |-> <<>>, failed |-> FALSE]
NoCostModel ==
  NewCostModel([delta_preferred_machine |-> <<1, 1>>, delta_preferred_rack |-> <<1, 1>>,
                transfer_costs |-> <<0, 0>>, machines_per_rack |-> 1, placement |-> <<>>])

\* FlowScheduler::FlowScheduler: last_updated_time_dependent_costs_(0ULL); no
\* iteration has read the clock
NewTimeCosts ==
  [last_updated_time_dependent_costs |-> 0, update_frequency |-> 1, cur_time |-> 0,
   iterated |-> FALSE, last_before |-> 0, updated |-> FALSE, job_vec |-> {}]

Init ==
  /\ time_costs = NewTimeCosts
  /\ cost_model = NoCostModel
  /\ trace = NewGenerateTrace(FALSE)
  /\ ctor = Constructed(COST_MODEL_TRIVIAL)
  /\ variant \in {"flow", "quincy"}
  /\ aborted = FALSE
  /\ lock_owner = {}
  /\ lock_count = 0
  /\ resource_map \in SUBSET PUs
  /\ delegated \in DelegatedAtStart(variant, resource_map)
  /\ task_state = [task \in Tasks |-> IF task \in delegated THEN "RUNNING" ELSE "RUNNABLE"]
  /\ task_bindings = [task \in delegated |-> DelegatedPU]
  /\ job_state = [job \in Jobs |-> IF \E task \in delegated : JobOf(task) = job
                                    THEN "RUNNING" ELSE "CREATED"]
  /\ jobs_to_schedule = {}
  /\ node_type = [task \in Tasks |-> "NONE"]
  /\ node_arc = <<>>
  /\ graph_pus = resource_map
  /\ seq_num = 0
  /\ in_solver = {}
  /\ calls = 0
  /\ th = [t \in Threads |-> IdleFrame]

\* ------------------------------------------------------------ base scheduler
\* EventDrivenScheduler::RunnableTasksForJob
RunnableTasksForJob(job) == {task \in TasksOf(job) : task_state[task] = "RUNNABLE"}

\* FlowGraph::AddOrUpdateJobNodes, for each job of a set: every runnable task
\* of the job that has no node yet gets an unscheduled-task node.
AddOrUpdateJobNodes(nodes, jobs) ==
  [task \in Tasks |->
     IF JobOf(task) \in jobs /\ task_state[task] = "RUNNABLE" /\ nodes[task] = "NONE"
     THEN "UNSCHEDULED_TASK" ELSE nodes[task]]

\* ------------------------------------------------------------ solver dispatcher
Delta(type, task, res, pos) ==
  [type |-> type, task_id |-> task, resource_id |-> res, actioned |-> FALSE,
   mpos |-> pos]

\* SolverDispatcher::NodeBindingToSchedulingDelta: the deltas appended for one
\* (task, resource) pair. Place when the task is unbound; for an unchanged
\* binding a NoOp, or nothing when it is filtered; Migrate or Preempt when the
\* task is bound elsewhere.
NodeBindingToSchedulingDelta(task, res, bindings, pos) ==
  IF task \notin DOMAIN bindings THEN {<<Delta("PLACE", task, res, pos)>>}
  ELSE IF bindings[task] = res THEN {<<>>, <<Delta("NOOP", task, res, pos)>>}
  ELSE {<<Delta("MIGRATE", task, res, pos)>>,
        <<Delta("PREEMPT", task, bindings[task], pos)>>}

\* QuincyDispatcher::NodeBindingToSchedulingDelta: fills in one delta.
QuincyNodeBindingToSchedulingDelta(task, res, bindings, pos) ==
  IF task \notin DOMAIN bindings THEN {Delta("PLACE", task, res, pos)}
  ELSE IF bindings[task] = res THEN {Delta("NOOP", task, res, pos)}
  ELSE {Delta("MIGRATE", task, res, pos), Delta("PREEMPT", task, bindings[task], pos)}

\* The mappings Run() can return: a multimap from task-node id to PU-node id,
\* iterated in ascending key order. The solver routes each task's unit of flow
\* to at most one PU, so a mapping has no more pairs than there are task
\* nodes; one pair of a mapping may be malformed (name the sink).
SrcNodes == {SinkNode} \cup {TaskNodeId(task) : task \in {x \in Tasks : node_type[x] # "NONE"}}
DstNodes == {SinkNode} \cup {PUNodeId(pu) : pu \in graph_pus}
MappingOf(f) ==
  LET keys == AscSeq(DOMAIN f)
  IN [i \in 1..Len(keys) |-> [src |-> keys[i], dst |-> f[keys[i]]]]
SolverMappings ==
  {MappingOf(f) : f \in
     {g \in UNION {[S -> DstNodes] : S \in SUBSET SrcNodes} :
        /\ Cardinality({n \in DOMAIN g : n = SinkNode \/ g[n] = SinkNode}) <= 1
        /\ Cardinality(DOMAIN g) < Cardinality(SrcNodes)}}

\* ------------------------------------------------------------ frame updates
Locked(t) == /\ lock_owner' = {t}
             /\ lock_count' = lock_count + 1
UnlockedKeepsOwner(t) == /\ lock_count' = lock_count - 1
                         /\ lock_owner' = lock_owner
Unlocked(t) == /\ lock_count' = lock_count - 1
               /\ lock_owner' = IF lock_count = 1 THEN {} ELSE lock_owner

SchedState == <<task_state, task_bindings, job_state, jobs_to_schedule, resource_map>>
GraphState == <<node_type, node_arc, graph_pus>>

\* ------------------------------------------------------------ handler bodies
\* The base EventDrivenScheduler's part of an entry point.
BaseHandler(h, task, res, job) ==
  LET unbound == {x \in DOMAIN task_bindings : task_bindings[x] = res} IN
  /\ task_bindings' =
       IF h \in {"HandleTaskPlacement", "HandleTaskMigration"} THEN MapPut(task_bindings, task, res)
       ELSE IF h \in {"HandleTaskEviction", "HandleTaskCompletion", "HandleTaskFailure",
                      "KillRunningTask"} THEN MapErase(task_bindings, task)
       ELSE IF h = "DeregisterResource" THEN [x \in (DOMAIN task_bindings) \ unbound |-> task_bindings[x]]
       ELSE task_bindings
  /\ task_state' =
       IF h = "HandleTaskPlacement" THEN [task_state EXCEPT ![task] = "RUNNING"]
       ELSE IF h = "HandleTaskEviction" THEN [task_state EXCEPT ![task] = "RUNNABLE"]
       ELSE IF h = "HandleTaskCompletion" THEN [task_state EXCEPT ![task] = "COMPLETED"]
       ELSE IF h = "HandleTaskFailure" THEN [task_state EXCEPT ![task] = "FAILED"]
       ELSE IF h = "KillRunningTask" THEN [task_state EXCEPT ![task] = "ABORTED"]
       ELSE IF h = "DeregisterResource"
         THEN [x \in Tasks |-> IF x \in unbound THEN "RUNNABLE"
                               ELSE task_state[x]]
       ELSE task_state
  /\ job_state' =
       IF h = "HandleTaskPlacement" THEN [job_state EXCEPT ![JobOf(task)] = "RUNNING"]
       ELSE IF h = "HandleJobCompletion" THEN [job_state EXCEPT ![job] = "COMPLETED"]
       ELSE job_state
  /\ jobs_to_schedule' =
       IF h = "HandleJobCompletion" THEN jobs_to_schedule \ {job} ELSE jobs_to_schedule
  /\ resource_map' =
       IF h = "RegisterResource" THEN resource_map \cup {res}
       ELSE IF h = "DeregisterResource" THEN resource_map \ {res}
       ELSE resource_map

\* The flow graph's part of an entry point: TaskScheduled, TaskEvicted,
\* TaskMigrated, TaskCompleted, TaskFailed, TaskKilled, JobCompleted,
\* RemoveMachine, and AddResourceTopology / AddMachine.
FlowGraphNotify(h, task, res, job) ==
  LET gone == {x \in DOMAIN node_arc : node_arc[x] = res} IN
  /\ node_type' =
       IF h \in {"HandleTaskPlacement", "HandleTaskMigration"} THEN [node_type EXCEPT ![task] = "SCHEDULED_TASK"]
       ELSE IF h = "HandleTaskEviction" THEN [node_type EXCEPT ![task] = "UNSCHEDULED_TASK"]
       ELSE IF h \in {"HandleTaskCompletion", "HandleTaskFailure", "KillRunningTask"}
         THEN [node_type EXCEPT ![task] = "NONE"]
       ELSE IF h = "HandleJobCompletion"
         THEN [x \in Tasks |-> IF JobOf(x) = job THEN "NONE" ELSE node_type[x]]
       ELSE IF h = "DeregisterResource"
         THEN [x \in Tasks |-> IF x \in gone THEN "UNSCHEDULED_TASK" ELSE node_type[x]]
       ELSE node_type
  /\ node_arc' =
       IF h \in {"HandleTaskPlacement", "HandleTaskMigration"} THEN MapPut(node_arc, task, res)
       ELSE IF h \in {"HandleTaskEviction", "HandleTaskCompletion", "HandleTaskFailure",
                      "KillRunningTask"} THEN MapErase(node_arc, task)
       ELSE IF h = "HandleJobCompletion"
         THEN [x \in {y \in DOMAIN node_arc : JobOf(y) # job} |-> node_arc[x]]
       ELSE IF h = "DeregisterResource" THEN [x \in (DOMAIN node_arc) \ gone |-> node_arc[x]]
       ELSE node_arc
  /\ graph_pus' =
       IF h = "RegisterResource" THEN graph_pus \cup {res}
       ELSE IF h = "DeregisterResource" THEN graph_pus \ {res}
       ELSE graph_pus

\* the two halves of an entry point, in the order its body runs them
FirstHalf(h) == IF h = "RegisterResource" THEN "fg" ELSE "base"
SecondHalf(h) == IF h = "RegisterResource" THEN "base" ELSE "fg"

HalfEffect(half, h, task, res, job) ==
  IF half = "base"
  THEN BaseHandler(h, task, res, job) /\ UNCHANGED GraphState
  ELSE FlowGraphNotify(h, task, res, job) /\ UNCHANGED SchedState

\* the notification the flow graph receives from a handler
FgCall(h, task, from, to) == [call |-> h, task |-> task, from |-> from, to |-> to]

\* ------------------------------------------------------------ entry points: handlers
TaskHandlers == {"HandleTaskPlacement", "HandleTaskEviction", "HandleTaskMigration",
                 "HandleTaskCompletion", "HandleTaskFailure", "KillRunningTask"}
FlowHandlers == TaskHandlers \cup {"DeregisterResource", "RegisterResource", "HandleJobCompletion"}
\* QuincyScheduler overrides no placement, eviction or migration handler
QuincyHandlers == FlowHandlers \ {"HandleTaskPlacement", "HandleTaskEviction", "HandleTaskMigration"}

\* the events the cluster can deliver in the current state
CallPossible(h, task, res, job) ==
  /\ (h \in TaskHandlers /\ task \in delegated) => h = "HandleTaskCompletion"
  /\ h = "DeregisterResource" => \A x \in delegated : x \in DOMAIN task_bindings => task_bindings[x] # res
  /\ CASE h = "HandleTaskPlacement" ->
         /\ task_state[task] = "RUNNABLE" /\ task \notin DOMAIN task_bindings
         /\ res \in resource_map /\ res \in graph_pus /\ node_type[task] # "NONE"
    [] h = "HandleTaskEviction" -> task \in DOMAIN task_bindings /\ task_bindings[task] = res
    [] h = "HandleTaskMigration" ->
         task \in DOMAIN task_bindings /\ res \in resource_map /\ res \in graph_pus
    [] h \in {"HandleTaskCompletion", "HandleTaskFailure", "KillRunningTask"} ->
         task_state[task] = "RUNNING"
    [] h = "DeregisterResource" -> res \in resource_map /\ res \in graph_pus
    [] h = "RegisterResource" -> res \notin resource_map /\ res \notin graph_pus
    [] h = "HandleJobCompletion" ->
         /\ job_state[job] # "COMPLETED"
         /\ \A x \in TasksOf(job) : task_state[x] = "COMPLETED"

HandlerFrame(f, h, task, res, job, ctx) ==
  [f EXCEPT !.pc = "h1", !.h = h, !.task = task, !.res = res, !.job = job,
            !.ctx = ctx, !.h_entry = <<Snapshot>>, !.fg_last = <<>>,
            !.old_res_id = IF h = "HandleTaskMigration" /\ task \in DOMAIN task_bindings
                           THEN {task_bindings[task]} ELSE {}]

\* FlowScheduler::HandleTaskMigration: the 'from' resource given to TaskMigrated
MigrationFromAfterBase(t) == task_bindings[th[t].task]
MigrationFrom(t) == CHOOSE r \in th[t].old_res_id : TRUE

\* A FlowScheduler entry point is called: it takes the lock (and
\* HandleTaskMigration looks up the task's binding).
FlowCall(t, h, task, res, job) ==
  /\ variant = "flow" /\ ~aborted /\ th[t].pc = "idle" /\ calls < MaxCalls
  /\ h \in FlowHandlers /\ CallPossible(h, task, res, job)
  /\ CanLock(t) /\ Locked(t)
  /\ th' = [th EXCEPT ![t] =
              HandlerFrame([IdleFrame EXCEPT !.op = h], h, task, res, job, "ext")]
  /\ UNCHANGED <<time_costs, cost_model, trace, ctor, variant, delegated, aborted, SchedState, GraphState, seq_num, in_solver>>
  /\ calls' = calls + 1

\* the frame after a half of the body: the flow-graph half leaves its call
Notified(f, half, from) ==
  IF half = "fg" THEN [f EXCEPT !.fg_last = <<FgCall(f.h, f.task, from, f.res)>>] ELSE f

MigrationFromOf(t) == IF th[t].h = "HandleTaskMigration" THEN {MigrationFrom(t)} ELSE {}

\* FlowScheduler::HandleTaskCompletion tells the flow graph nothing about a
\* delegated task; every other handler always makes its flow-graph call
SkipsFlowGraph(h, task) == h = "HandleTaskCompletion" /\ task \in delegated

\* first half of the body, under the lock
FlowHandlerFirst(t) ==
  /\ variant = "flow" /\ ~aborted /\ th[t].pc = "h1"
  /\ HalfEffect(FirstHalf(th[t].h), th[t].h, th[t].task, th[t].res, th[t].job)
  /\ th' = [th EXCEPT ![t] = [Notified(@, FirstHalf(th[t].h), {}) EXCEPT !.pc = "h2"]]
  /\ UNCHANGED <<time_costs, cost_model, trace, ctor, variant, delegated, aborted, lock_owner, lock_count, seq_num, in_solver, calls>>

\* second half of the body
FlowHandlerSecond(t) ==
  /\ variant = "flow" /\ ~aborted /\ th[t].pc = "h2"
  /\ IF SkipsFlowGraph(th[t].h, th[t].task)
     THEN /\ UNCHANGED <<SchedState, GraphState>>
          /\ th' = [th EXCEPT ![t].pc = "h_ret"]
     ELSE /\ HalfEffect(SecondHalf(th[t].h), th[t].h, th[t].task, th[t].res, th[t].job)
          /\ th' = [th EXCEPT ![t] =
                      [Notified(@, SecondHalf(th[t].h), MigrationFromOf(t))
                         EXCEPT !.pc = IF th[t].ctx = "apply" THEN "apply_ret" ELSE "h_ret"]]
  /\ UNCHANGED <<time_costs, cost_model, trace, ctor, variant, delegated, aborted, lock_owner, lock_count, seq_num, in_solver, calls>>

\* an externally called handler returns, releasing its lock guard
HandlerReturn(t) ==
  /\ ~aborted /\ th[t].pc = "h_ret"
  /\ Unlocked(t)
  /\ th' = [th EXCEPT ![t] = IdleFrame]
  /\ UNCHANGED <<time_costs, cost_model, trace, ctor, variant, delegated, aborted, SchedState, GraphState, seq_num, in_solver, calls>>

\* A QuincyScheduler entry point is called: the first half of its body runs,
\* the base handler taking the lock for itself.
QuincyCall(t, h, task, res, job) ==
  /\ variant = "quincy" /\ ~aborted /\ th[t].pc = "idle" /\ calls < MaxCalls
  /\ h \in QuincyHandlers /\ CallPossible(h, task, res, job)
  /\ CanLock(t)
  /\ HalfEffect(FirstHalf(h), h, task, res, job)
  /\ th' = [th EXCEPT ![t] =
              [Notified(HandlerFrame([IdleFrame EXCEPT !.op = h], h, task, res, job, "ext"),
                        FirstHalf(h), {})
                 EXCEPT !.pc = "q2"]]
  /\ UNCHANGED <<time_costs, cost_model, trace, ctor, variant, delegated, aborted, lock_owner, lock_count, seq_num, in_solver>>
  /\ calls' = calls + 1

\* second half of a QuincyScheduler entry point
QuincyHandlerSecond(t) ==
  /\ variant = "quincy" /\ ~aborted /\ th[t].pc = "q2"
  /\ CanLock(t) /\ Locked(t)
  /\ HalfEffect(SecondHalf(th[t].h), th[t].h, th[t].task, th[t].res, th[t].job)
  /\ th' = [th EXCEPT ![t] = [Notified(@, SecondHalf(th[t].h), {}) EXCEPT !.pc = "h_ret"]]
  /\ UNCHANGED <<time_costs, cost_model, trace, ctor, variant, delegated, aborted, seq_num, in_solver, calls>>

\* KillRunningTask is called while another thread holds the scheduling lock:
\* the caller blocks in the lock_guard constructor (QuincyScheduler: in the
\* base handler's). ctx remembers whether a solver run was in progress.
KillArrives(t, task) ==
  /\ ~aborted /\ th[t].pc = "idle" /\ calls < MaxCalls
  /\ CallPossible("KillRunningTask", task, 1, JobOf(task))
  /\ ~CanLock(t)
  /\ th' = [th EXCEPT ![t] =
              [IdleFrame EXCEPT !.pc = "kill_wait", !.op = "KillRunningTask",
                                !.h = "KillRunningTask", !.task = task,
                                !.ctx = IF in_solver # {} THEN "late_run" ELSE "late",
                                !.entry = <<Snapshot>>]]
  /\ UNCHANGED <<time_costs, cost_model, trace, ctor, variant, delegated, aborted, lock_owner, lock_count, SchedState, GraphState,
                 seq_num, in_solver>>
  /\ calls' = calls + 1

\* ... and goes on once the lock is free: FlowScheduler's handler now holds it,
\* QuincyScheduler's base handler has run and released it
KillProceeds(t) ==
  /\ ~aborted /\ th[t].pc = "kill_wait"
  /\ CanLock(t)
  /\ LET f == HandlerFrame(th[t], "KillRunningTask", th[t].task, th[t].res, JobOf(th[t].task),
                           th[t].ctx) IN
     IF variant = "flow"
     THEN /\ Locked(t)
          /\ th' = [th EXCEPT ![t] = f]
          /\ UNCHANGED <<SchedState, GraphState>>
     ELSE /\ HalfEffect("base", "KillRunningTask", th[t].task, th[t].res, JobOf(th[t].task))
          /\ th' = [th EXCEPT ![t] = [f EXCEPT !.pc = "q2"]]
          /\ UNCHANGED <<lock_owner, lock_count>>
  /\ UNCHANGED <<time_costs, cost_model, trace, ctor, variant, delegated, aborted, seq_num, in_solver, calls>>

\* EventDrivenScheduler::AddJob: a submitted job is queued for scheduling
AddJob(t, job) ==
  /\ ~aborted /\ th[t].pc = "idle" /\ calls < MaxCalls /\ CanLock(t)
  /\ job \notin jobs_to_schedule /\ job_state[job] # "COMPLETED"
  /\ jobs_to_schedule' = jobs_to_schedule \cup {job}
  /\ UNCHANGED <<time_costs, cost_model, trace, ctor, variant, delegated, aborted, lock_owner, lock_count, task_state, task_bindings,
                 job_state, resource_map, GraphState, seq_num, in_solver, th>>
  /\ calls' = calls + 1

\* ------------------------------------------------------------ entry points: scheduling
\* FlowScheduler::ScheduleAllJobs: every queued job, in the queue's iteration order
ScheduleAllJobsListDropOne(queue) ==
  IF queue = {} THEN <<>> ELSE Tail(AscSeq(queue))
ScheduleAllJobsList(queue) == AscSeq(queue)

ScheduleAllJobs(t) ==
  /\ variant = "flow" /\ ~aborted /\ th[t].pc = "idle" /\ calls < MaxCalls
  /\ CanLock(t) /\ Locked(t)
  /\ th' = [th EXCEPT ![t] = [IdleFrame EXCEPT !.pc = "sj_enter", !.op = "ScheduleAllJobs",
                                 !.jds_ptr = ScheduleAllJobsList(jobs_to_schedule),
                                 !.entry = <<Snapshot>>]]
  /\ UNCHANGED <<time_costs, cost_model, trace, ctor, variant, delegated, aborted, SchedState, GraphState, seq_num, in_solver>>
  /\ calls' = calls + 1

\* FlowScheduler::ScheduleJob
ScheduleJob(t, job) ==
  /\ variant = "flow" /\ ~aborted /\ th[t].pc = "idle" /\ calls < MaxCalls
  /\ CanLock(t) /\ Locked(t)
  /\ th' = [th EXCEPT ![t] = [IdleFrame EXCEPT !.pc = "sj_enter", !.op = "ScheduleJob",
                                 !.jds_ptr = <<job>>, !.entry = <<Snapshot>>]]
  /\ UNCHANGED <<time_costs, cost_model, trace, ctor, variant, delegated, aborted, SchedState, GraphState, seq_num, in_solver>>
  /\ calls' = calls + 1

\* FlowScheduler::ScheduleJobs called directly with a list of jobs
ScheduleJobs(t, jobs) ==
  /\ variant = "flow" /\ ~aborted /\ th[t].pc = "idle" /\ calls < MaxCalls
  /\ CanLock(t) /\ Locked(t)
  /\ th' = [th EXCEPT ![t] = [IdleFrame EXCEPT !.pc = "sj_begin", !.op = "ScheduleJobs",
                                 !.jds_ptr = jobs, !.entry = <<Snapshot>>]]
  /\ UNCHANGED <<time_costs, cost_model, trace, ctor, variant, delegated, aborted, SchedState, GraphState, seq_num, in_solver>>
  /\ calls' = calls + 1

\* ScheduleJobs entered from ScheduleAllJobs / ScheduleJob: the lock is re-taken
ScheduleJobsEnter(t) ==
  /\ ~aborted /\ th[t].pc = "sj_enter"
  /\ CanLock(t) /\ Locked(t)
  /\ th' = [th EXCEPT ![t].pc = "sj_begin"]
  /\ UNCHANGED <<time_costs, cost_model, trace, ctor, variant, delegated, aborted, SchedState, GraphState, seq_num, in_solver, calls>>

\* "runnable_tasks.size() > 0"
HasRunnableAlways(job) == TRUE
HasRunnable(job) == RunnableTasksForJob(job) # {}

\* ScheduleJobs: the loop over the jobs that adds their nodes
ScheduleJobsBegin(t) ==
  /\ ~aborted /\ th[t].pc = "sj_begin"
  /\ LET added == {job \in Range(th[t].jds_ptr) : HasRunnable(job)}
         n_added == Cardinality({i \in DOMAIN th[t].jds_ptr : HasRunnable(th[t].jds_ptr[i])})
     IN /\ node_type' = AddOrUpdateJobNodes(node_type, added)
        /\ th' = [th EXCEPT ![t] = [@ EXCEPT !.run_scheduler = (n_added > 0),
                                      !.num_scheduled_tasks = 0,
                                      !.aojn_calls = n_added,
                                      !.pc = IF n_added > 0 THEN "rsi_begin" ELSE "sj_ret"]]
  /\ UNCHANGED <<time_costs, cost_model, trace, ctor, variant, delegated, aborted, lock_owner, lock_count, SchedState, node_arc, graph_pus,
                 seq_num, in_solver, calls>>

\* QuincyScheduler::ScheduleJob
QuincyScheduleJob(t, job) ==
  /\ variant = "quincy" /\ ~aborted /\ th[t].pc = "idle" /\ calls < MaxCalls
  /\ CanLock(t) /\ Locked(t)
  /\ LET run == HasRunnable(job) IN
     /\ node_type' = IF run THEN AddOrUpdateJobNodes(node_type, {job}) ELSE node_type
     /\ th' = [th EXCEPT ![t] = [IdleFrame EXCEPT !.op = "ScheduleJob", !.jds_ptr = <<job>>,
                                   !.entry = <<Snapshot>>, !.run_scheduler = run,
                                   !.aojn_calls = IF run THEN 1 ELSE 0,
                                   !.pc = IF run THEN "rsi_begin" ELSE "top_ret"]]
  /\ UNCHANGED <<time_costs, cost_model, trace, ctor, variant, delegated, aborted, SchedState, node_arc, graph_pus, seq_num, in_solver>>
  /\ calls' = calls + 1

\* FlowScheduler::RunSchedulingIteration: "if (solver_dispatcher_->seq_num()
\* == 0) UpdateCostModelResourceStats()"
StatsIfFirstAlways(seq) == <<"stats">>
StatsIfFirst(seq) == IF seq = 0 THEN <<"stats">> ELSE <<>>

\* RunSchedulingIteration is entered: FlowScheduler updates the statistics
\* if this is the first iteration and then looks at the time-dependent costs;
\* QuincyScheduler goes straight to the solver
RunSchedulingIteration(t) ==
  /\ ~aborted /\ th[t].pc = "rsi_begin"
  /\ th' = [th EXCEPT ![t] = [@ EXCEPT !.pc = "run", !.rsi_calls = @ + 1,
                                !.iter_entry = <<Snapshot>>,
                                !.steps = IF variant = "flow"
                                          THEN StatsIfFirst(seq_num) \o <<"costs">>
                                          ELSE <<>>]]
  /\ UNCHANGED <<time_costs, cost_model, trace, ctor, variant, delegated, aborted, lock_owner, lock_count, SchedState, GraphState,
                 seq_num, in_solver, calls>>

\* solver_dispatcher_->Run() is called ...
SolverRun(t) ==
  /\ ~aborted /\ th[t].pc = "run"
  /\ in_solver' = in_solver \cup {t}
  /\ th' = [th EXCEPT ![t] = [@ EXCEPT !.pc = "run_wait", !.steps = Append(@, "run")]]
  /\ UNCHANGED <<time_costs, cost_model, trace, ctor, variant, delegated, aborted, lock_owner, lock_count, SchedState, GraphState, seq_num, calls>>

\* ... and returns the task mappings
SolverReturn(t) ==
  /\ ~aborted /\ th[t].pc = "run_wait"
  /\ in_solver' = in_solver \ {t}
  /\ seq_num' = seq_num + 1
  /\ \E m \in SolverMappings :
       th' = [th EXCEPT ![t] = [@ EXCEPT !.pc = "convert", !.task_mappings = m, !.it = 1,
                                  !.deltas = <<>>, !.all_deltas = <<>>, !.applied = <<>>]]
  /\ UNCHANGED <<time_costs, cost_model, trace, ctor, variant, delegated, aborted, lock_owner, lock_count, SchedState, GraphState, calls>>

\* ------------------------------------------------------------ the scheduling iteration
Abort(t, where) ==
  /\ aborted' = TRUE
  /\ th' = [th EXCEPT ![t] = [@ EXCEPT !.pc = "aborted", !.abort_at = where]]

\* FlowScheduler::RunSchedulingIteration: the sanity checks on one pair
\* (source is a task node, destination a PU node, both descriptors found)
SanityChecks(p) ==
  /\ NodeTypeOf(p.src) \in TaskNodeTypes
  /\ NodeTypeOf(p.dst) = "PU"
  /\ NodePU(p.dst) \in resource_map

\* QuincyDispatcher::NodeBindingToSchedulingDelta: its checks on the two nodes
QuincySanityChecks(p) ==
  /\ NodeTypeOf(p.src) \in TaskNodeTypes
  /\ NodeTypeOf(p.dst) = "PU"

\* the task descriptor looked up for a pair: that of the source node's task
TaskOfSourceOther(p) == CHOOSE task \in Tasks : task # NodeTask(p.src)
TaskOfSource(p) == NodeTask(p.src)

\* one turn of the loop over task_mappings
ConvertPair(t) ==
  /\ ~aborted /\ th[t].pc = "convert" /\ th[t].it <= Len(th[t].task_mappings)
  /\ LET p == th[t].task_mappings[th[t].it] IN
     IF variant = "flow"
     THEN IF ~SanityChecks(p)
          THEN Abort(t, "convert") /\ UNCHANGED node_type
          ELSE /\ \E ds \in NodeBindingToSchedulingDelta(TaskOfSource(p), NodePU(p.dst),
                                                        task_bindings, th[t].it) :
                    th' = [th EXCEPT ![t] = [@ EXCEPT !.deltas = @ \o ds,
                                               !.all_deltas = @ \o ds, !.it = @ + 1]]
               /\ UNCHANGED <<aborted, node_type>>
     ELSE IF ~QuincySanityChecks(p)
          THEN Abort(t, "convert") /\ UNCHANGED node_type
          ELSE \E d \in QuincyNodeBindingToSchedulingDelta(NodeTask(p.src), NodePU(p.dst),
                                                           task_bindings, th[t].it) :
                 IF d.type = "NOOP"
                 THEN /\ th' = [th EXCEPT ![t].it = @ + 1]
                      /\ UNCHANGED <<aborted, node_type>>
                 ELSE /\ node_type' = [node_type EXCEPT ![NodeTask(p.src)] = "SCHEDULED_TASK"]
                      /\ th' = [th EXCEPT ![t] = [@ EXCEPT !.deltas = Append(@, d),
                                                    !.all_deltas = Append(@, d), !.it = @ + 1]]
                      /\ UNCHANGED aborted
  /\ UNCHANGED <<time_costs, cost_model, trace, ctor, variant, delegated, lock_owner, lock_count, SchedState, node_arc, graph_pus,
                 seq_num, in_solver, calls>>

\* the loop over task_mappings ends: ApplySchedulingDeltas(deltas) is called
ConvertDone(t) ==
  /\ ~aborted /\ th[t].pc = "convert" /\ th[t].it > Len(th[t].task_mappings)
  /\ th' = [th EXCEPT ![t] = [@ EXCEPT !.pc = "apply", !.d_it = 1, !.num_scheduled = 0,
                                !.steps = Append(@, "convert")]]
  /\ UNCHANGED <<time_costs, cost_model, trace, ctor, variant, delegated, aborted, lock_owner, lock_count, SchedState, GraphState,
                 seq_num, in_solver, calls>>

\* ApplySchedulingDeltas: the delta the iterator stands on, and "++it"
DeltaIterReversed(i, n) == n - i + 1
DeltaIter(i, n) == i
AdvanceItStuck(t) == th[t].d_it
AdvanceIt(t) == th[t].d_it + 1

\* "num_scheduled++" belongs to the PLACE branch
CountsAsScheduledAny(type) == TRUE
CountsAsScheduled(type) == type = "PLACE"

HandlerOfFailing(type) ==
  CASE type = "PLACE" -> "HandleTaskPlacement"
    [] type = "PREEMPT" -> "HandleTaskFailure"
    [] type = "MIGRATE" -> "HandleTaskMigration"

HandlerOf(type) ==
  CASE type = "PLACE" -> "HandleTaskPlacement"
    [] type = "PREEMPT" -> "HandleTaskEviction"
    [] type = "MIGRATE" -> "HandleTaskMigration"

\* FlowScheduler::ApplySchedulingDeltas: one turn of the loop, up to the
\* handler call (the handler takes the lock again)
FlowApplyNext(t) ==
  /\ variant = "flow" /\ ~aborted /\ th[t].pc = "apply" /\ th[t].d_it <= Len(th[t].deltas)
  /\ LET d == th[t].deltas[DeltaIter(th[t].d_it, Len(th[t].deltas))] IN
     IF d.resource_id \notin resource_map
     THEN Abort(t, "apply") /\ UNCHANGED <<lock_owner, lock_count>>
     ELSE IF d.type = "NOOP"
     THEN /\ th' = [th EXCEPT ![t] = [@ EXCEPT !.d_it = AdvanceIt(t),
                                               !.steps = Append(@, "apply")]]
          /\ UNCHANGED <<aborted, lock_owner, lock_count>>
     ELSE /\ CanLock(t) /\ Locked(t)
          /\ th' = [th EXCEPT ![t] =
                      HandlerFrame([@ EXCEPT !.applied = Append(@, d.mpos),
                                             !.steps = Append(@, "apply")], HandlerOf(d.type),
                                   d.task_id, d.resource_id, JobOf(d.task_id), "apply")]
          /\ UNCHANGED aborted
  /\ UNCHANGED <<time_costs, cost_model, trace, ctor, variant, delegated, SchedState, GraphState, seq_num, in_solver, calls>>

\* the handler returns into ApplySchedulingDeltas, releasing its lock guard
FlowApplyReturn(t) ==
  /\ ~aborted /\ th[t].pc = "apply_ret"
  /\ Unlocked(t)
  /\ LET i == DeltaIter(th[t].d_it, Len(th[t].deltas)) IN
     th' = [th EXCEPT ![t] =
              [@ EXCEPT !.pc = "apply", !.h = "none", !.ctx = "none",
                        !.num_scheduled = IF CountsAsScheduled(th[t].deltas[i].type)
                                         THEN @ + 1 ELSE @,
                        !.deltas = [@ EXCEPT ![i].actioned = TRUE],
                        !.d_it = AdvanceIt(t)]]
  /\ UNCHANGED <<time_costs, cost_model, trace, ctor, variant, delegated, aborted, SchedState, GraphState, seq_num, in_solver, calls>>

\* QuincyScheduler::ApplySchedulingDeltas: one turn of the loop
QuincyApplyNext(t) ==
  /\ variant = "quincy" /\ ~aborted /\ th[t].pc = "apply" /\ th[t].d_it <= Len(th[t].deltas)
  /\ LET i == DeltaIter(th[t].d_it, Len(th[t].deltas))
         d == th[t].deltas[i] IN
     IF d.type # "PLACE"
     THEN /\ th' = [th EXCEPT ![t] = [@ EXCEPT !.d_it = AdvanceIt(t),
                                               !.steps = Append(@, "apply")]]
          /\ UNCHANGED <<aborted, SchedState, GraphState>>
     ELSE IF d.resource_id \notin resource_map
     THEN Abort(t, "apply") /\ UNCHANGED <<SchedState, GraphState>>
     ELSE /\ BaseHandler("HandleTaskPlacement", d.task_id, d.resource_id, JobOf(d.task_id))
          /\ FlowGraphNotify("HandleTaskPlacement", d.task_id, d.resource_id, JobOf(d.task_id))
          /\ th' = [th EXCEPT ![t] =
                      [@ EXCEPT !.applied = Append(@, d.mpos),
                                !.fg_last = <<FgCall("HandleTaskPlacement", d.task_id, {},
                                                     d.resource_id)>>,
                                !.num_scheduled = @ + 1,
                                !.deltas = [@ EXCEPT ![i].actioned = TRUE],
                                !.d_it = AdvanceIt(t),
                                !.steps = Append(@, "apply")]]
          /\ UNCHANGED aborted
  /\ UNCHANGED <<time_costs, cost_model, trace, ctor, variant, delegated, lock_owner, lock_count, seq_num, in_solver, calls>>

\* ApplySchedulingDeltas returns num_scheduled
ApplyDone(t) ==
  /\ ~aborted /\ th[t].pc = "apply" /\ th[t].d_it > Len(th[t].deltas)
  /\ th' = [th EXCEPT ![t].pc = "drop"]
  /\ UNCHANGED <<time_costs, cost_model, trace, ctor, variant, delegated, aborted, lock_owner, lock_count, SchedState, GraphState,
                 seq_num, in_solver, calls>>

\* "Drop all deltas that were actioned": the deltas the erase loop keeps
KeepsActioned(d) == d.actioned
Keeps(d) == ~d.actioned

\* the erase loop and the warning about what remains
DropActioned(t) ==
  /\ ~aborted /\ th[t].pc = "drop"
  /\ LET remain == SelectSeq(th[t].deltas, Keeps) IN
     th' = [th EXCEPT ![t] =
              [@ EXCEPT !.pc = "rsi_end", !.deltas = remain,
                        !.warn_count = Len(remain),
                        \* FlowScheduler logs each remaining delta, QuincyScheduler their number
                        !.warned = IF variant = "flow" THEN remain ELSE <<>>]]
  /\ UNCHANGED <<time_costs, cost_model, trace, ctor, variant, delegated, aborted, lock_owner, lock_count, SchedState, GraphState,
                 seq_num, in_solver, calls>>

\* FlowScheduler::RunSchedulingIteration updates the statistics again and
\* returns num_scheduled; its local deltas vector ends
RunSchedulingIterationReturn(t) ==
  /\ ~aborted /\ th[t].pc = "rsi_end"
  /\ th' = [th EXCEPT ![t] =
              [@ EXCEPT !.pc = IF variant = "flow" THEN "sj_after" ELSE "top_ret",
                        !.steps = IF variant = "flow" THEN Append(@, "stats") ELSE @,
                        !.deltas = <<>>,
                        !.num_scheduled_tasks = @ + th[t].num_scheduled]]
  /\ UNCHANGED <<time_costs, cost_model, trace, ctor, variant, delegated, aborted, lock_owner, lock_count, SchedState, GraphState,
                 seq_num, in_solver, calls>>

\* ScheduleJobs after the iteration: job nodes are added or updated again
ScheduleJobsAfter(t) ==
  /\ ~aborted /\ th[t].pc = "sj_after"
  /\ node_type' = AddOrUpdateJobNodes(node_type, Range(th[t].jds_ptr))
  /\ th' = [th EXCEPT ![t] = [@ EXCEPT !.pc = "sj_ret",
                                !.aojn_calls = @ + Len(th[t].jds_ptr)]]
  /\ UNCHANGED <<time_costs, cost_model, trace, ctor, variant, delegated, aborted, lock_owner, lock_count, SchedState, node_arc, graph_pus,
                 seq_num, in_solver, calls>>

\* ScheduleJobs returns num_scheduled_tasks, releasing its lock guard
ScheduleJobsReturn(t) ==
  /\ ~aborted /\ th[t].pc = "sj_ret"
  /\ Unlocked(t)
  /\ th' = [th EXCEPT ![t] =
              IF th[t].op = "ScheduleJobs" THEN IdleFrame
              ELSE [@ EXCEPT !.pc = IF th[t].op = "ScheduleAllJobs" THEN "saj_clear"
                                    ELSE "top_ret"]]
  /\ UNCHANGED <<time_costs, cost_model, trace, ctor, variant, delegated, aborted, SchedState, GraphState, seq_num, in_solver, calls>>

\* EventDrivenScheduler::ClearScheduledJobs: the queues it can leave. The base
\* class defines it; by its name it either empties the queue or removes the
\* jobs that have no runnable task left, and both outcomes are kept.
ClearScheduledJobs(queue) == {{}, {job \in queue : RunnableTasksForJob(job) # {}}}

\* ScheduleAllJobs: the queue is cleared after ScheduleJobs
ScheduleAllJobsClear(t) ==
  /\ ~aborted /\ th[t].pc = "saj_clear"
  /\ jobs_to_schedule' \in ClearScheduledJobs(jobs_to_schedule)
  /\ th' = [th EXCEPT ![t].pc = "top_ret"]
  /\ UNCHANGED <<time_costs, cost_model, trace, ctor, variant, delegated, aborted, lock_owner, lock_count, task_state, task_bindings,
                 job_state, resource_map, GraphState, seq_num, in_solver, calls>>

\* ScheduleAllJobs / ScheduleJob returns, releasing the outermost lock guard
TopReturn(t) ==
  /\ ~aborted /\ th[t].pc = "top_ret"
  /\ Unlocked(t)
  /\ th' = [th EXCEPT ![t] = IdleFrame]
  /\ UNCHANGED <<time_costs, cost_model, trace, ctor, variant, delegated, aborted, SchedState, GraphState, seq_num, in_solver, calls>>

\* ------------------------------------------------------------ specification
JobLists == {AscSeq(S) : S \in SUBSET Jobs}

Next ==
  \E t \in Threads :
    \/ \E h \in FlowHandlers, task \in Tasks, res \in PUs :
         FlowCall(t, h, task, res, JobOf(task))
    \/ FlowHandlerFirst(t)
    \/ FlowHandlerSecond(t)
    \/ HandlerReturn(t)
    \/ \E h \in QuincyHandlers, task \in Tasks, res \in PUs :
         QuincyCall(t, h, task, res, JobOf(task))
    \/ QuincyHandlerSecond(t)
    \/ \E task \in Tasks : KillArrives(t, task)
    \/ KillProceeds(t)
    \/ \E job \in Jobs : AddJob(t, job)
    \/ ScheduleAllJobs(t)
    \/ \E job \in Jobs : ScheduleJob(t, job)
    \/ \E jobs \in JobLists : ScheduleJobs(t, jobs)
    \/ ScheduleJobsEnter(t)
    \/ ScheduleJobsBegin(t)
    \/ \E job \in Jobs : QuincyScheduleJob(t, job)
    \/ RunSchedulingIteration(t)
    \/ SolverRun(t)
    \/ SolverReturn(t)
    \/ ConvertPair(t)
    \/ ConvertDone(t)
    \/ FlowApplyNext(t)
    \/ FlowApplyReturn(t)
    \/ QuincyApplyNext(t)
    \/ ApplyDone(t)
    \/ DropActioned(t)
    \/ RunSchedulingIterationReturn(t)
    \/ ScheduleJobsAfter(t)
    \/ ScheduleJobsReturn(t)
    \/ ScheduleAllJobsClear(t)
    \/ TopReturn(t)

Spec == Init /\ [][Next]_vars

\* ------------------------------------------------------------ the constructor's steps
\* FlowScheduler::FlowScheduler / QuincyScheduler::QuincyScheduler are called
\* with a flag value and a resource topology
CtorInit ==
  /\ time_costs = NewTimeCosts
  /\ cost_model = NoCostModel
  /\ trace = NewGenerateTrace(FALSE)
  /\ ctor \in {NewScheduler(selector) : selector \in Selectors}
  /\ variant \in {"flow", "quincy"}
  /\ delegated = {}
  /\ aborted = FALSE
  /\ lock_owner = {}
  /\ lock_count = 0
  /\ task_state = [task \in Tasks |-> "RUNNABLE"]
  /\ task_bindings = <<>>
  /\ job_state = [job \in Jobs |-> "CREATED"]
  /\ jobs_to_schedule = {}
  /\ resource_map \in SUBSET PUs
  /\ node_type = [task \in Tasks |-> "NONE"]
  /\ node_arc = <<>>
  /\ graph_pus = {}
  /\ seq_num = 0
  /\ in_solver = {}
  /\ calls = 0
  /\ th = [t \in Threads |-> IdleFrame]

CtorFrame == <<time_costs, cost_model, trace, variant, delegated, lock_owner, lock_count, SchedState, node_type, node_arc,
               seq_num, in_solver, calls, th>>

\* switch (FLAGS_flow_scheduling_cost_model): a cost model is created, or the
\* default branch ends the process with LOG(FATAL)
CtorSwitch ==
  /\ ~aborted /\ ctor.pc = "switch"
  /\ IF CostModelSwitch(ctor.selector) = "FATAL"
     THEN /\ aborted' = TRUE
          /\ ctor' = [ctor EXCEPT !.pc = "aborted"]
     ELSE /\ ctor' = [ctor EXCEPT !.pc = "graph", !.cost_model = CostModelSwitch(ctor.selector)]
          /\ UNCHANGED aborted
  /\ UNCHANGED <<CtorFrame, graph_pus>>

\* flow_graph_.reset(new FlowGraph(cost_model_, leaf_res_ids_))
CtorFlowGraph ==
  /\ ~aborted /\ ctor.pc = "graph"
  /\ ctor' = [ctor EXCEPT !.pc = "topology", !.flow_graph = TRUE]
  /\ UNCHANGED <<CtorFrame, graph_pus, aborted>>

\* UpdateResourceTopology(resource_topology): the initial flow graph
CtorTopology ==
  /\ ~aborted /\ ctor.pc = "topology"
  /\ graph_pus' = resource_map
  /\ ctor' = [ctor EXCEPT !.pc = "dispatcher"]
  /\ UNCHANGED <<CtorFrame, aborted>>

\* the dispatcher is created and the constructor returns
CtorDispatcher ==
  /\ ~aborted /\ ctor.pc = "dispatcher"
  /\ ctor' = [ctor EXCEPT !.pc = "done", !.dispatcher = TRUE]
  /\ UNCHANGED <<CtorFrame, graph_pus, aborted>>

CtorNext == CtorSwitch \/ CtorFlowGraph \/ CtorTopology \/ CtorDispatcher

CtorSpec == CtorInit /\ [][CtorNext]_vars

\* ------------------------------------------------------------ trace emitter
\* GenerateTrace, called with any sequence of events. Everything but the
\* emitter and the abort flag stays as constructed.
SchedulerFrame == <<time_costs, cost_model, ctor, variant, delegated, lock_owner, lock_count, SchedState, GraphState,
                    seq_num, in_solver, calls, th>>

\* job descriptors: names with the simulation prefix and a numeric suffix, one
\* with a suffix that is no number, and one without the prefix
JobDescs ==
  {[prefixed |-> TRUE, suffix |-> job] : job \in Jobs}
    \cup {[prefixed |-> TRUE, suffix |-> 0 - 1], [prefixed |-> FALSE, suffix |-> 0 - 1]}
\* task descriptors: the Firmament uid and the index within the job
TaskDescs == {[uid |-> task, index |-> task - 1] : task \in Tasks}

\* time_manager_->GetCurrentTimestamp(): the clock does not run backwards
Timestamps == {ts \in trace.now .. (trace.now + 1) : ts <= MaxTime}

\* the job id TaskSubmitted works with: the parsed suffix of a simulation
\* name (no id when the suffix is no number: LOG(FATAL)); otherwise the hash
\* of the local job_id, which is read before anything was assigned to it
FatalId == 0 - 1
JobIdOf(jd) ==
  IF jd.prefixed
  THEN IF jd.suffix \in Jobs THEN {jd.suffix} ELSE {FatalId}
  ELSE 1 .. (Cardinality(Jobs) + 1)
TraceTaskId(jd, td) == IF jd.prefixed THEN td.index ELSE td.uid

\* fields of the local TaskRuntime that TaskSubmitted does not assign
UnassignedField == 0

\* job_num_tasks_ after a submission
NumTasksAfterAlways(num_tasks, job_id, inserted) ==
  IF job_id \notin DOMAIN num_tasks THEN MapPut(num_tasks, job_id, 1)
  ELSE [num_tasks EXCEPT ![job_id] = @ + 1]
NumTasksAfter(num_tasks, job_id, inserted) ==
  IF ~inserted THEN num_tasks
  ELSE IF job_id \notin DOMAIN num_tasks THEN MapPut(num_tasks, job_id, 1)
  ELSE [num_tasks EXCEPT ![job_id] = @ + 1]

\* one line of task_events: timestamp,,job_id,task_index,event_type,... ;
\* uid and from are not printed: they record which task the call was for and,
\* in a submission row, the job descriptor it was made with
TaskEventRow(timestamp, job_id, trace_task_id, task_event, uid, from) ==
  [timestamp |-> timestamp, job_id |-> job_id, task_index |-> trace_task_id,
   event_type |-> task_event, uid |-> uid, from |-> from]

\* LOG(FATAL) and a failed CHECK_NOTNULL log their message and end the
\* process where they stand: nothing after them in the method runs
TraceAtFatalWritten(timestamp, message) ==
  [trace EXCEPT !.now = timestamp, !.fatal = message,
                !.task_events = Append(@, TaskEventRow(timestamp, 0, 0, 0, 0, {}))]
TraceAtFatal(timestamp, message) == [trace EXCEPT !.now = timestamp, !.fatal = message]

EmitterRuns == ~aborted /\ trace.open /\ Len(trace.task_events) < MaxRows

TaskSubmitted(jd, td) ==
  /\ EmitterRuns
  /\ IF ~trace.generate_trace THEN UNCHANGED <<trace, aborted>>
     ELSE \E timestamp \in Timestamps : \E job_id \in JobIdOf(jd) :
       IF job_id = FatalId
       THEN aborted' = TRUE /\ trace' = TraceAtFatal(timestamp, "Could not convert")
       ELSE
         LET task_id == td.uid
             trace_task_id == TraceTaskId(jd, td)
             inserted == task_id \notin DOMAIN trace.task_to_job
             task_runtime == [task_id |-> trace_task_id, start_time |-> timestamp,
                              num_runs |-> 0, last_schedule_time |-> 0,
                              total_runtime |-> UnassignedField,
                              runtime |-> UnassignedField]
         IN /\ trace' =
                 [trace EXCEPT
                    !.now = timestamp,
                    !.task_to_job = IF inserted THEN MapPut(@, task_id, job_id) ELSE @,
                    !.job_num_tasks = NumTasksAfter(@, job_id, inserted),
                    !.task_events =
                       Append(@, TaskEventRow(timestamp, job_id, trace_task_id, 0, task_id, {jd})),
                    !.task_to_runtime =
                       IF task_id \in DOMAIN @ THEN @ ELSE MapPut(@, task_id, task_runtime)]
            /\ UNCHANGED aborted
  /\ UNCHANGED SchedulerFrame

\* the common body of TaskCompleted, TaskEvicted, TaskFailed and TaskKilled
TaskEnded(task_id, task_event) ==
  /\ IF ~trace.generate_trace THEN UNCHANGED <<trace, aborted>>
     ELSE \E timestamp \in Timestamps :
       IF task_id \notin DOMAIN trace.task_to_job \/ task_id \notin DOMAIN trace.task_to_runtime
       THEN aborted' = TRUE /\ trace' = TraceAtFatal(timestamp, "Must be non NULL")
       ELSE
         LET tr == trace.task_to_runtime[task_id] IN
         /\ trace' =
              [trace EXCEPT
                 !.now = timestamp,
                 !.task_events =
                    Append(@, TaskEventRow(timestamp, trace.task_to_job[task_id], tr.task_id,
                                           task_event, task_id, {})),
                 !.task_to_runtime[task_id] =
                    [@ EXCEPT !.total_runtime = @ + (timestamp - tr.last_schedule_time),
                              !.runtime = IF task_event = 4
                                          THEN timestamp - tr.last_schedule_time ELSE @]]
         /\ UNCHANGED aborted
  /\ UNCHANGED SchedulerFrame

TaskCompleted(task_id) ==
  /\ EmitterRuns
  /\ TaskEnded(task_id, 4)
TaskEvicted(task_id) ==
  /\ EmitterRuns
  /\ TaskEnded(task_id, 2)
TaskFailed(task_id) ==
  /\ EmitterRuns
  /\ TaskEnded(task_id, 3)
TaskKilled(task_id) ==
  /\ EmitterRuns
  /\ TaskEnded(task_id, 5)

TaskScheduled(task_id) ==
  /\ EmitterRuns
  /\ IF ~trace.generate_trace THEN UNCHANGED <<trace, aborted>>
     ELSE \E timestamp \in Timestamps :
       IF task_id \notin DOMAIN trace.task_to_job \/ task_id \notin DOMAIN trace.task_to_runtime
       THEN aborted' = TRUE /\ trace' = TraceAtFatal(timestamp, "Must be non NULL")
       ELSE
         LET tr == trace.task_to_runtime[task_id] IN
         /\ trace' =
              [trace EXCEPT
                 !.now = timestamp,
                 !.task_events =
                    Append(@, TaskEventRow(timestamp, trace.task_to_job[task_id], tr.task_id,
                                           1, task_id, {})),
                 !.task_to_runtime[task_id] =
                    [@ EXCEPT !.num_runs = @ + 1, !.last_schedule_time = timestamp]]
         /\ UNCHANGED aborted
  /\ UNCHANGED SchedulerFrame

\* GenerateTrace::~GenerateTrace: one task_runtime_events row per runtime
\* record and one jobs_num_tasks row per job, in the maps' iteration order
TraceShutdown ==
  /\ ~aborted /\ trace.open
  /\ IF ~trace.generate_trace THEN trace' = [trace EXCEPT !.open = FALSE]
     ELSE trace' =
            [trace EXCEPT
               !.open = FALSE,
               !.task_runtime_events =
                  {<<trace.task_to_job[task_id], task_id, trace.task_to_job[task_id],
                     trace.task_to_runtime[task_id].start_time,
                     trace.task_to_runtime[task_id].total_runtime,
                     trace.task_to_runtime[task_id].runtime,
                     trace.task_to_runtime[task_id].num_runs>> :
                       task_id \in DOMAIN trace.task_to_runtime},
               !.jobs_num_tasks =
                  {<<job_id, trace.job_num_tasks[job_id]>> : job_id \in DOMAIN trace.job_num_tasks}]
  /\ UNCHANGED <<aborted, SchedulerFrame>>

TraceInit ==
  /\ time_costs = NewTimeCosts
  /\ cost_model = NoCostModel
  /\ trace \in {NewGenerateTrace(flag) : flag \in BOOLEAN}
  /\ ctor = Constructed(COST_MODEL_TRIVIAL)
  /\ variant = "flow"
  /\ delegated = {}
  /\ aborted = FALSE
  /\ lock_owner = {}
  /\ lock_count = 0
  /\ task_state = [task \in Tasks |-> "RUNNABLE"]
  /\ task_bindings = <<>>
  /\ job_state = [job \in Jobs |-> "CREATED"]
  /\ jobs_to_schedule = {}
  /\ resource_map = {}
  /\ node_type = [task \in Tasks |-> "NONE"]
  /\ node_arc = <<>>
  /\ graph_pus = {}
  /\ seq_num = 0
  /\ in_solver = {}
  /\ calls = 0
  /\ th = [t \in Threads |-> IdleFrame]

TraceNext ==
  \/ \E jd \in JobDescs : \E td \in TaskDescs : TaskSubmitted(jd, td)
  \/ \E task_id \in Tasks : TaskScheduled(task_id)
  \/ \E task_id \in Tasks : TaskCompleted(task_id)
  \/ \E task_id \in Tasks : TaskEvicted(task_id)
  \/ \E task_id \in Tasks : TaskFailed(task_id)
  \/ \E task_id \in Tasks : TaskKilled(task_id)
  \/ TraceShutdown

TraceSpec == TraceInit /\ [][TraceNext]_vars

\* ------------------------------------------------------------ machine events
\* strings are sequences of character codes; 0..9 are the decimal digits
UUIDs == {<<11, 12>>, <<12, 11>>}
MachineNames ==
  {[has_friendly_name |-> FALSE, prefixed |-> FALSE, rest |-> <<>>],
   [has_friendly_name |-> TRUE, prefixed |-> FALSE, rest |-> <<13>>],
   [has_friendly_name |-> TRUE, prefixed |-> TRUE, rest |-> <<1, 0>>],
   [has_friendly_name |-> TRUE, prefixed |-> TRUE, rest |-> <<1, 13>>]}
ResourceDescs == {[uuid |-> uuid, name |-> name] : uuid \in UUIDs, name \in MachineNames}

\* size_t arithmetic, kept to 16 bits
HashModulus == 65536
HashGolden == 31161
RECURSIVE Xor(_, _)
Xor(a, b) ==
  IF a = 0 THEN b
  ELSE IF b = 0 THEN a
  ELSE (((a % 2) + (b % 2)) % 2) + 2 * Xor(a \div 2, b \div 2)
\* boost::hash_combine: seed ^= hash_value(v) + 0x9e3779b9 + (seed << 6) + (seed >> 2)
HashCombine(seed, hv) ==
  Xor(seed, (hv + HashGolden + (seed * 64) + (seed \div 4)) % HashModulus)
\* hash_value of a string: hash_combine over its characters, from seed 0
RECURSIVE HashRange(_, _)
HashRange(seed, str) ==
  IF str = <<>> THEN seed ELSE HashRange(HashCombine(seed, Head(str)), Tail(str))
HashValue(str) == HashRange(0, str)

\* boost::lexical_cast<uint64_t>: the decimal value, or no value (FatalId)
RECURSIVE Decimal(_, _)
Decimal(str, acc) ==
  IF str = <<>> THEN acc ELSE Decimal(Tail(str), 10 * acc + Head(str))
LexicalCast(str) ==
  IF str = <<>> \/ \E i \in DOMAIN str : str[i] \notin 0 .. 9 THEN FatalId
  ELSE Decimal(str, 0)

\* GenerateTrace::GetMachineId
GetMachineIdNamed(rd) == HashCombine(42, HashValue(rd.uuid \o rd.name.rest))
GetMachineId(rd) ==
  IF rd.name.has_friendly_name /\ rd.name.prefixed
  THEN LexicalCast(rd.name.rest)
  ELSE HashCombine(42, HashValue(rd.uuid))

MachineEmitterRuns == ~aborted /\ trace.open /\ Len(trace.machine_events) < MaxRows

\* the common body of AddMachine and RemoveMachine; rd is not printed
MachineEvent(rd, machine_event) ==
  IF ~trace.generate_trace THEN UNCHANGED <<trace, aborted>>
  ELSE \E timestamp \in Timestamps :
    IF GetMachineId(rd) = FatalId
    THEN aborted' = TRUE /\ trace' = TraceAtFatal(timestamp, "Could not convert")
    ELSE /\ trace' = [trace EXCEPT
                        !.now = timestamp,
                        !.machine_events =
                           Append(@, [timestamp |-> timestamp, machine_id |-> GetMachineId(rd),
                                      event_type |-> machine_event, rd |-> rd])]
         /\ UNCHANGED aborted

AddMachine(rd) ==
  /\ MachineEmitterRuns
  /\ MachineEvent(rd, 0)
  /\ UNCHANGED SchedulerFrame

RemoveMachine(rd) ==
  /\ MachineEmitterRuns
  /\ MachineEvent(rd, 1)
  /\ UNCHANGED SchedulerFrame

MachineTraceNext ==
  \/ \E rd \in ResourceDescs : AddMachine(rd)
  \/ \E rd \in ResourceDescs : RemoveMachine(rd)
  \/ TraceShutdown

MachineTraceSpec == TraceInit /\ [][MachineTraceNext]_vars

\* ------------------------------------------------------------ simulated Quincy cost model
\* SimulatedQuincyCostModel over a small simulated filesystem: three machines,
\* three files of 1, 1 and 2 blocks
CostMachines == {1, 2, 3}
FileIds == {1, 2, 3}
GetNumBlocks(file_id) == IF file_id = 3 THEN 2 ELSE 1
\* racks are filled in the order of the machines, machines_per_rack each
MachineToRack(machine) == (machine - 1) \div cost_model.machines_per_rack
\* filesystem_->GetMachines: the machines still in the filesystem that hold the file
GetMachines(file_id) == cost_model.placement[file_id] \cap cost_model.dfs_machines
\* filesystem_->SampleFiles: some non-empty set of files
FileSets == (SUBSET FileIds) \ {{}}

RECURSIVE SumBlocks(_)
SumBlocks(files) ==
  IF files = {} THEN 0
  ELSE LET file_id == CHOOSE f \in files : TRUE
       IN GetNumBlocks(file_id) + SumBlocks(files \ {file_id})

\* the three accumulations of the loop over the file set
MachineFrequency(file_set) ==
  [machine \in UNION {GetMachines(f) : f \in file_set} |->
     SumBlocks({f \in file_set : machine \in GetMachines(f)})]
\* a file counted once for every machine of the rack that holds it
RackFrequencyPerReplica(file_set) ==
  LET RECURSIVE SumReplicas(_, _)
      SumReplicas(files, rack) ==
        IF files = {} THEN 0
        ELSE LET file_id == CHOOSE f \in files : TRUE
             IN GetNumBlocks(file_id)
                  * Cardinality({m \in GetMachines(file_id) : MachineToRack(m) = rack})
                  + SumReplicas(files \ {file_id}, rack)
  IN [rack \in {MachineToRack(machine) : machine \in UNION {GetMachines(f) : f \in file_set}} |->
        SumReplicas(file_set, rack)]
RackFrequency(file_set) ==
  [rack \in {MachineToRack(machine) : machine \in UNION {GetMachines(f) : f \in file_set}} |->
     SumBlocks({f \in file_set :
                  \E machine \in GetMachines(f) : MachineToRack(machine) = rack})]

\* cost of a preferred machine: "num_rack_blocks -= num_local_blocks;
\* num_core_blocks = total_num_blocks - num_rack_blocks - num_local_blocks"
MachineCostInclusive(total, rack_blocks, local_blocks) ==
  (total - rack_blocks - local_blocks) * cost_model.core_transfer_cost
    + (rack_blocks - local_blocks) * cost_model.tor_transfer_cost
MachineCost(total, rack_blocks, local_blocks) ==
  LET num_rack_blocks == rack_blocks - local_blocks
      num_core_blocks == total - num_rack_blocks - local_blocks
  IN num_core_blocks * cost_model.core_transfer_cost
       + num_rack_blocks * cost_model.tor_transfer_cost
RackCost(total, rack_blocks) ==
  (total - rack_blocks) * cost_model.core_transfer_cost
    + rack_blocks * cost_model.tor_transfer_cost

\* "proportion = count; proportion /= total_num_blocks" compared with a
\* threshold num/den; 0/0 is NaN, which compares false
MachinePreferredStrict(count, total) ==
  LET delta == cost_model.proportion_machine_preferred
  IN total > 0 /\ count * delta[2] > delta[1] * total
MachinePreferred(count, total) ==
  LET delta == cost_model.proportion_machine_preferred
  IN total > 0 /\ count * delta[2] >= delta[1] * total
RackPreferredAtLeast(count, total) ==
  LET delta == cost_model.proportion_rack_preferred
  IN total > 0 /\ count * delta[2] >= delta[1] * total
RackPreferred(count, total) ==
  LET delta == cost_model.proportion_rack_preferred
  IN total > 0 /\ count * delta[2] > delta[1] * total

\* ComputeCostsAndPreferredSet: the three values stored for the task
PreferredMachines(file_set) ==
  LET mf == MachineFrequency(file_set)
      rf == RackFrequency(file_set)
      total == SumBlocks(file_set)
  IN [machine \in {m \in DOMAIN mf : MachinePreferred(mf[m], total)} |->
        MachineCost(total, rf[MachineToRack(machine)], mf[machine])]
PreferredRacks(file_set) ==
  LET rf == RackFrequency(file_set)
      total == SumBlocks(file_set)
  IN [rack \in {r \in DOMAIN rf : RackPreferred(rf[r], total)} |-> RackCost(total, rf[rack])]
ClusterAggregatorCost(file_set) == SumBlocks(file_set) * cost_model.core_transfer_cost

CostModelFrame == <<time_costs, trace, ctor, variant, delegated, lock_owner, lock_count, SchedState,
                    GraphState, seq_num, in_solver, calls, th>>

\* AddTask: BuildTaskFileSet, then ComputeCostsAndPreferredSet
AddTask(task_id, file_set) ==
  /\ ~aborted
  /\ cost_model' =
       [cost_model EXCEPT
          !.file_map = MapPut(@, task_id, file_set),
          !.preferred_machine_map = MapPut(@, task_id, {PreferredMachines(file_set)}),
          !.preferred_rack_map = MapPut(@, task_id, PreferredRacks(file_set)),
          !.cluster_aggregator_cost = MapPut(@, task_id, ClusterAggregatorCost(file_set))]
  /\ UNCHANGED <<aborted, CostModelFrame>>

\* RemoveTask: "delete preferred_machine_map_[task_id]" (deleting a null
\* pointer does nothing), then the four erases
RemoveTask(task_id) ==
  /\ ~aborted
  /\ cost_model' =
       [cost_model EXCEPT
          !.file_map = MapErase(@, task_id),
          !.preferred_machine_map = MapErase(@, task_id),
          !.preferred_rack_map = MapErase(@, task_id),
          !.cluster_aggregator_cost = MapErase(@, task_id)]
  /\ UNCHANGED <<aborted, CostModelFrame>>

\* unordered_map::operator[]: a missing key is inserted with a
\* value-initialised value
Subscript(map, key, fresh) == IF key \in DOMAIN map THEN map ELSE MapPut(map, key, fresh)
\* a pointer is {} when null and {map} otherwise
Deref(ptr) == CHOOSE map \in ptr : TRUE

\* a null pointer is dereferenced: the process dies, or it goes on
NullDereference(after) ==
  \/ aborted' = TRUE /\ cost_model' = [after EXCEPT !.failed = TRUE]
  \/ aborted' = aborted /\ cost_model' = [after EXCEPT !.failed = TRUE]

CostModelAddMachine(res_id) ==
  /\ ~aborted /\ res_id \notin cost_model.dfs_machines
  /\ cost_model' = [cost_model EXCEPT !.dfs_machines = @ \cup {res_id}]
  /\ UNCHANGED <<aborted, CostModelFrame>>

\* RemoveMachine: the filesystem forgets the machine, and the machine is
\* erased from every task's preferred machines
CostModelRemoveMachine(res_id) ==
  /\ ~aborted /\ res_id \in cost_model.dfs_machines
  /\ LET pmm == cost_model.preferred_machine_map
         gone == [cost_model EXCEPT !.dfs_machines = @ \ {res_id}]
     IN IF \E task_id \in DOMAIN pmm : pmm[task_id] = {}
        THEN NullDereference(gone)
        ELSE /\ cost_model' =
                  [gone EXCEPT
                     !.preferred_machine_map =
                        [task_id \in DOMAIN pmm |-> {MapErase(Deref(pmm[task_id]), res_id)}]]
             /\ UNCHANGED aborted
  /\ UNCHANGED CostModelFrame

\* "return cluster_aggregator_cost_[task_id]"
TaskToClusterAggCost(task_id) ==
  /\ ~aborted
  /\ cost_model' = [cost_model EXCEPT !.cluster_aggregator_cost = Subscript(@, task_id, 0)]
  /\ UNCHANGED <<aborted, CostModelFrame>>

\* "cost_map = preferred_machine_map_[task_id]; return (*cost_map)[resource_id]"
TaskToResourceNodeCost(task_id, resource_id) ==
  /\ ~aborted
  /\ LET pmm == Subscript(cost_model.preferred_machine_map, task_id, {}) IN
     IF pmm[task_id] = {}
     THEN NullDereference([cost_model EXCEPT !.preferred_machine_map = pmm])
     ELSE /\ cost_model' =
               [cost_model EXCEPT
                  !.preferred_machine_map =
                     [pmm EXCEPT ![task_id] = {Subscript(Deref(@), resource_id, 0)}]]
          /\ UNCHANGED aborted
  /\ UNCHANGED CostModelFrame

\* "return preferred_rack_map_[task_id][tec]"
TaskToEquivClassAggregator(task_id, tec) ==
  /\ ~aborted
  /\ cost_model' =
       [cost_model EXCEPT
          !.preferred_rack_map =
             LET prm == Subscript(@, task_id, <<>>)
             IN [prm EXCEPT ![task_id] = Subscript(@, tec, 0)]]
  /\ UNCHANGED <<aborted, CostModelFrame>>

\* the keys of preferred_rack_map_[task_id]
GetTaskEquivClasses(task_id) ==
  /\ ~aborted
  /\ cost_model' = [cost_model EXCEPT !.preferred_rack_map = Subscript(@, task_id, <<>>)]
  /\ UNCHANGED <<aborted, CostModelFrame>>

\* the keys of *(preferred_machine_map_[task_id])
GetTaskPreferenceArcs(task_id) ==
  /\ ~aborted
  /\ LET pmm == Subscript(cost_model.preferred_machine_map, task_id, {}) IN
     IF pmm[task_id] = {}
     THEN NullDereference([cost_model EXCEPT !.preferred_machine_map = pmm])
     ELSE cost_model' = cost_model /\ UNCHANGED aborted
  /\ UNCHANGED CostModelFrame

\* what the five queries return in the current state
HasMachineMap(task_id) ==
  /\ task_id \in DOMAIN cost_model.preferred_machine_map
  /\ cost_model.preferred_machine_map[task_id] # {}
MachineMapOf(task_id) == Deref(cost_model.preferred_machine_map[task_id])
ResourceNodeCostResult(task_id, resource_id) ==
  IF resource_id \in DOMAIN MachineMapOf(task_id) THEN MachineMapOf(task_id)[resource_id] ELSE 0
PreferenceArcsResult(task_id) == DOMAIN MachineMapOf(task_id)
EquivClassesResult(task_id) ==
  IF task_id \in DOMAIN cost_model.preferred_rack_map
  THEN DOMAIN cost_model.preferred_rack_map[task_id] ELSE {}

\* the filesystem's contents, the rack sizes, the thresholds (as fractions)
\* and the transfer costs the cost model may be constructed with
CostModelArgs ==
  [delta_preferred_machine : {<<1, 4>>, <<1, 2>>, <<1, 1>>},
   delta_preferred_rack : {<<1, 4>>, <<1, 2>>, <<1, 1>>},
   transfer_costs : {<<0, 0>>, <<2, 1>>, <<1, 3>>},
   machines_per_rack : 1 .. Cardinality(CostMachines),
   placement :
     {[file_id \in FileIds |->
         IF file_id = 1 THEN {1} ELSE IF file_id = 2 THEN second ELSE third] :
        second \in {{1}, {2}, {1, 2}, {3}}, third \in {{1}, {2}, {3}, {2, 3}}}]

SchedulerIdle ==
  /\ trace = NewGenerateTrace(FALSE)
  /\ ctor = Constructed(COST_MODEL_SIMULATED_QUINCY)
  /\ variant = "flow"
  /\ delegated = {}
  /\ aborted = FALSE
  /\ lock_owner = {}
  /\ lock_count = 0
  /\ task_state = [task \in Tasks |-> "RUNNABLE"]
  /\ task_bindings = <<>>
  /\ job_state = [job \in Jobs |-> "CREATED"]
  /\ jobs_to_schedule = {}
  /\ resource_map = {}
  /\ node_type = [task \in Tasks |-> "NONE"]
  /\ node_arc = <<>>
  /\ graph_pus = {}
  /\ seq_num = 0
  /\ in_solver = {}
  /\ calls = 0
  /\ th = [t \in Threads |-> IdleFrame]

\* ComputeCostsAndPreferredSet over all arguments: tasks are added
CostFnInit ==
  /\ time_costs = NewTimeCosts
  /\ cost_model \in {NewCostModel(args) : args \in CostModelArgs}
  /\ SchedulerIdle
CostFnNext == \E task_id \in Tasks : \E file_set \in FileSets : AddTask(task_id, file_set)
CostFnSpec == CostFnInit /\ [][CostFnNext]_vars

\* every operation of the cost model, for one way of constructing it and one task
CostTasks == {1}
CostRacks == {MachineToRack(machine) : machine \in CostMachines}
CostInit ==
  /\ time_costs = NewTimeCosts
  /\ cost_model \in {NewCostModel(args) :
                       args \in {a \in CostModelArgs :
                                   /\ a.delta_preferred_machine = <<1, 2>>
                                   /\ a.delta_preferred_rack = <<1, 4>>
                                   /\ a.transfer_costs = <<2, 1>>
                                   /\ a.machines_per_rack = 2
                                   /\ a.placement[2] = {1, 2} /\ a.placement[3] = {2, 3}}}
  /\ SchedulerIdle
CostNext ==
  \/ \E task_id \in CostTasks : \E file_set \in FileSets : AddTask(task_id, file_set)
  \/ \E task_id \in CostTasks : RemoveTask(task_id)
  \/ \E res_id \in CostMachines : CostModelAddMachine(res_id)
  \/ \E res_id \in CostMachines : CostModelRemoveMachine(res_id)
  \/ \E task_id \in CostTasks : TaskToClusterAggCost(task_id)
  \/ \E task_id \in CostTasks : \E res_id \in CostMachines :
       TaskToResourceNodeCost(task_id, res_id)
  \/ \E task_id \in CostTasks : \E tec \in CostRacks : TaskToEquivClassAggregator(task_id, tec)
  \/ \E task_id \in CostTasks : GetTaskEquivClasses(task_id)
  \/ \E task_id \in CostTasks : GetTaskPreferenceArcs(task_id)
CostSpec == CostInit /\ [][CostNext]_vars

\* ------------------------------------------------------------ time-dependent costs
\* timestamps are unsigned and wrap at TimeModulus (2^64 in the program); the
\* update frequency flag is one of 1 .. MaxFrequency
TimeModulus == 16
MaxFrequency == 4
JobStateValues == {"CREATED", "RUNNING", "COMPLETED", "FAILED", "ABORTED"}

\* "last_updated_time_dependent_costs_ <= (cur_time - frequency)"
TimeToRevisit(last_updated, cur_time, frequency) ==
  last_updated <= (cur_time - frequency + TimeModulus) % TimeModulus

\* the jobs collected into job_vec
ActiveJobs == {job \in Jobs : job_state[job] \notin {"COMPLETED", "FAILED", "ABORTED"}}

\* RunSchedulingIteration up to the solver's run: the clock is read and the
\* time-dependent costs are revisited if it is time to
UpdateTimeDependentCostsStep(cur_time) ==
  /\ ~aborted /\ cur_time >= time_costs.cur_time
  /\ LET revisit == TimeToRevisit(time_costs.last_updated_time_dependent_costs, cur_time,
                                  time_costs.update_frequency)
     IN time_costs' =
          [time_costs EXCEPT
             !.cur_time = cur_time,
             !.iterated = TRUE,
             !.last_before = time_costs.last_updated_time_dependent_costs,
             !.updated = revisit,
             !.job_vec = IF revisit THEN ActiveJobs ELSE {},
             !.last_updated_time_dependent_costs = IF revisit THEN cur_time ELSE @]
  /\ UNCHANGED <<cost_model, trace, ctor, variant, delegated, aborted, lock_owner, lock_count,
                 SchedState, GraphState, seq_num, in_solver, calls, th>>

\* the jobs of job_map_ are in any states when the iterations run
RefreshInit ==
  /\ time_costs \in {[NewTimeCosts EXCEPT !.update_frequency = frequency] :
                       frequency \in 1 .. MaxFrequency}
  /\ cost_model = NoCostModel
  /\ trace = NewGenerateTrace(FALSE)
  /\ ctor = Constructed(COST_MODEL_SIMULATED_QUINCY)
  /\ variant = "flow"
  /\ delegated = {}
  /\ aborted = FALSE
  /\ lock_owner = {}
  /\ lock_count = 0
  /\ task_state = [task \in Tasks |-> "RUNNABLE"]
  /\ task_bindings = <<>>
  /\ job_state \in [Jobs -> JobStateValues]
  /\ jobs_to_schedule = {}
  /\ resource_map = {}
  /\ node_type = [task \in Tasks |-> "NONE"]
  /\ node_arc = <<>>
  /\ graph_pus = {}
  /\ seq_num = 0
  /\ in_solver = {}
  /\ calls = 0
  /\ th = [t \in Threads |-> IdleFrame]
RefreshNext == \E cur_time \in 0 .. (TimeModulus - 1) : UpdateTimeDependentCostsStep(cur_time)
RefreshSpec == RefreshInit /\ [][RefreshNext]_vars

\* ------------------------------------------------------------ ApplySchedulingDeltas on its own
\* FlowScheduler::ApplySchedulingDeltas is called, under the scheduling lock,
\* with a vector of one or two deltas: NoOp deltas for any task and
\* resource, Place deltas for a registered resource
ApplyInit ==
  /\ time_costs = NewTimeCosts
  /\ cost_model = NoCostModel
  /\ trace = NewGenerateTrace(FALSE)
  /\ ctor = Constructed(COST_MODEL_TRIVIAL)
  /\ variant = "flow"
  /\ delegated = {}
  /\ aborted = FALSE
  /\ lock_owner = {1}
  /\ lock_count = 1
  /\ resource_map \in SUBSET PUs
  /\ task_state = [task \in Tasks |-> "RUNNABLE"]
  /\ task_bindings = <<>>
  /\ job_state = [job \in Jobs |-> "CREATED"]
  /\ jobs_to_schedule = Jobs
  /\ node_type = [task \in Tasks |-> "UNSCHEDULED_TASK"]
  /\ node_arc = <<>>
  /\ graph_pus = resource_map
  /\ seq_num = 1
  /\ in_solver = {}
  /\ calls = 1
  /\ \E deltas \in UNION {[1 .. n -> [type : {"NOOP", "PLACE"}, task_id : Tasks,
                                      resource_id : PUs]] : n \in 1 .. 2} :
       /\ \A i \in DOMAIN deltas :
            /\ deltas[i].type = "PLACE" => deltas[i].resource_id \in resource_map
            /\ \A j \in DOMAIN deltas : deltas[i].task_id = deltas[j].task_id => i = j
       /\ th = [t \in Threads |->
                  IF t = 1
                  THEN [IdleFrame EXCEPT
                          !.pc = "apply", !.op = "ScheduleAllJobs", !.run_scheduler = TRUE,
                          !.entry = <<Snapshot>>, !.iter_entry = <<Snapshot>>,
                          !.deltas = [i \in DOMAIN deltas |->
                                        Delta(deltas[i].type, deltas[i].task_id,
                                              deltas[i].resource_id, i)],
                          !.all_deltas = [i \in DOMAIN deltas |->
                                            Delta(deltas[i].type, deltas[i].task_id,
                                                  deltas[i].resource_id, i)]]
                  ELSE IdleFrame]
ApplyNext ==
  \E t \in Threads :
    \/ FlowApplyNext(t)
    \/ FlowHandlerFirst(t)
    \/ FlowHandlerSecond(t)
    \/ FlowApplyReturn(t)
    \/ ApplyDone(t)
ApplySpec == ApplyInit /\ [][ApplyNext]_vars

\* ------------------------------------------------------------ the lock under fair scheduling
\* the steps by which thread t goes on with the call it is in
Continue(t) ==
  \/ FlowHandlerFirst(t)
  \/ FlowHandlerSecond(t)
  \/ HandlerReturn(t)
  \/ KillProceeds(t)
  \/ ScheduleJobsEnter(t)
  \/ ScheduleJobsBegin(t)
  \/ RunSchedulingIteration(t)
  \/ SolverRun(t)
  \/ SolverReturn(t)
  \/ ConvertPair(t)
  \/ ConvertDone(t)
  \/ FlowApplyNext(t)
  \/ FlowApplyReturn(t)
  \/ ApplyDone(t)
  \/ DropActioned(t)
  \/ RunSchedulingIterationReturn(t)
  \/ ScheduleJobsAfter(t)
  \/ ScheduleJobsReturn(t)
  \/ ScheduleAllJobsClear(t)
  \/ TopReturn(t)

\* a FlowScheduler whose jobs are submitted, scheduled and killed; a thread
\* that can go on does, and the solver returns
LockInit == Init /\ variant = "flow"
LockNext ==
  \E t \in Threads :
    \/ \E job \in Jobs : AddJob(t, job)
    \/ ScheduleAllJobs(t)
    \/ \E job \in Jobs : ScheduleJob(t, job)
    \/ \E task \in Tasks : KillArrives(t, task)
    \/ Continue(t)
LockSpec == LockInit /\ [][LockNext]_vars /\ \A t \in Threads : WF_vars(Continue(t))

\* ------------------------------------------------------------ properties
InApply(t) == th[t].pc \in {"apply", "h1", "h2", "apply_ret"} /\ th[t].op \in {"ScheduleAllJobs", "ScheduleJob", "ScheduleJobs"}
Occurrences(seq, x) == Cardinality({i \in DOMAIN seq : seq[i] = x})
PlaceCount(seq) == Cardinality({i \in DOMAIN seq : seq[i].type = "PLACE"})
\* the deltas of the iteration for which no handler has run
Unapplied(t) == {d \in Range(th[t].all_deltas) : d.mpos \notin Range(th[t].applied)}
RunnableAtEntry(t) ==
  \E job \in Range(th[t].jds_ptr) : \E task \in TasksOf(job) :
     th[t].entry[1].states[task] = "RUNNABLE"

\* C1: the 'from' resource HandleTaskMigration gives to TaskMigrated is the
\* task's binding before the base handler ran; when that binding differs from
\* the new resource, from # to.
C1_MigrationFromIsOldBinding ==
  \A t \in Threads :
    (th[t].fg_last # <<>> /\ th[t].h_entry # <<>>
       /\ th[t].fg_last[1].call = "HandleTaskMigration") =>
      LET c == th[t].fg_last[1]
          before == th[t].h_entry[1].bindings
      IN /\ c.task \in DOMAIN before
         /\ c.from = {before[c.task]}
         /\ (before[c.task] # c.to => c.from # {c.to})

C1_Witness ==
  \E t \in Threads :
    /\ th[t].fg_last # <<>>
    /\ th[t].fg_last[1].call = "HandleTaskMigration"
    /\ th[t].fg_last[1].from # {th[t].fg_last[1].to}
    /\ task_bindings[th[t].fg_last[1].task] = th[t].fg_last[1].to

\* C2: within one iteration the handlers run in the order of the mapping's
\* pairs, and a delta's handler has completed (the delta is actioned) before
\* the next delta's handler starts.
C2_DeltasAppliedInMappingOrder ==
  \A t \in Threads :
    LET a == th[t].applied IN
    /\ \A i, j \in DOMAIN a : i < j => a[i] < a[j]
    /\ InApply(t) =>
         \A i \in DOMAIN a : i < Len(a) =>
           \E k \in DOMAIN th[t].deltas :
             th[t].deltas[k].mpos = a[i] /\ th[t].deltas[k].actioned

C2_Witness ==
  \E t \in Threads : Len(th[t].applied) >= 2 /\ th[t].pc = "h1"

\* C3: when ApplySchedulingDeltas returns, the placement handler has run once
\* for each Place delta, each is actioned, and the count is the number of
\* Place deltas; ScheduleJobs (QuincyScheduler: ScheduleJob) returns that count.
C3_CountIsNumberOfPlaceDeltas ==
  \A t \in Threads :
    /\ th[t].pc = "drop" =>
         /\ th[t].num_scheduled = PlaceCount(th[t].deltas)
         /\ \A i \in DOMAIN th[t].deltas :
              th[t].deltas[i].type = "PLACE" =>
                /\ th[t].deltas[i].actioned
                /\ Occurrences(th[t].applied, th[t].deltas[i].mpos) = 1
    /\ (th[t].pc = "sj_ret" \/ (th[t].pc = "top_ret" /\ variant = "quincy")) =>
         th[t].num_scheduled_tasks = PlaceCount(th[t].all_deltas)

C3_Witness ==
  \E t \in Threads :
    /\ th[t].pc = "sj_ret"
    /\ th[t].num_scheduled_tasks >= 1
    /\ \E i \in DOMAIN th[t].all_deltas : th[t].all_deltas[i].type # "PLACE"

\* C4: every delta of an iteration gets at most one handler invocation, the
\* deltas an iteration applies are the ones made from its own mapping, and an
\* iteration starts with no delta left from an earlier one.
C4_AtMostOnceDeltaApplication ==
  \A t \in Threads :
    /\ \A pos \in Range(th[t].applied) : Occurrences(th[t].applied, pos) <= 1
    /\ \A i \in DOMAIN th[t].deltas :
         LET d == th[t].deltas[i] IN
         /\ d.mpos \in DOMAIN th[t].task_mappings
         /\ d.task_id = NodeTask(th[t].task_mappings[d.mpos].src)
         /\ Occurrences([k \in DOMAIN th[t].deltas |-> th[t].deltas[k].mpos], d.mpos) = 1
    /\ th[t].pc \in {"idle", "sj_enter", "sj_begin", "rsi_begin", "run", "run_wait"} =>
         th[t].deltas = <<>> /\ th[t].applied = <<>>

C4_Witness ==
  \E t \in Threads :
    /\ seq_num >= 2
    /\ th[t].pc = "rsi_end"
    /\ Len(th[t].deltas) >= 1
    /\ Len(th[t].applied) >= 1

\* RunSchedulingIteration has returned to the frame that called it
IterationReturned(t) ==
  /\ th[t].rsi_calls >= 1
  /\ th[t].pc \in {"sj_after", "sj_ret", "saj_clear", "top_ret"}

\* C5: after delta application the actioned deltas are erased from the
\* iteration's delta list and the unactioned ones stay in it and are warned
\* about (FlowScheduler logs each of them, QuincyScheduler their number); the
\* list is a local of RunSchedulingIteration, so nothing of it is left once the
\* iteration has returned its count.
C5_UnactionedWarnedListIsLocal ==
  \A t \in Threads :
    /\ th[t].pc = "rsi_end" =>
         /\ Range(th[t].deltas) = Unapplied(t)
         /\ Len(th[t].deltas) = Cardinality(Unapplied(t))
         /\ \A i \in DOMAIN th[t].deltas : ~th[t].deltas[i].actioned
         /\ th[t].warn_count = Len(th[t].deltas)
         /\ th[t].warned = IF variant = "flow" THEN th[t].deltas ELSE <<>>
    /\ IterationReturned(t) => th[t].deltas = <<>>

C5_Witness ==
  \E t \in Threads :
    /\ th[t].pc = "rsi_end"
    /\ th[t].warn_count >= 1
    /\ \E i \in DOMAIN th[t].all_deltas : th[t].all_deltas[i] \notin Range(th[t].deltas)

\* C5 as stated: the unactioned deltas are in the delta list the caller has
\* once RunSchedulingIteration has returned.
C5_UnactionedReturnedToCaller ==
  \A t \in Threads : IterationReturned(t) => Unapplied(t) \subseteq Range(th[t].deltas)

\* C6 as stated: when a solver pair fails the node-type checks, the iteration
\* has applied no delta and has changed nothing in the flow graph.
C6_AbortBeforeAnyChange ==
  \A t \in Threads :
    th[t].abort_at = "convert" =>
      /\ th[t].applied = <<>>
      /\ th[t].fg_last = <<>>
      /\ node_type = th[t].iter_entry[1].nodes

\* C7: ScheduleJobs (QuincyScheduler: ScheduleJob) runs RunSchedulingIteration,
\* and so the solver, exactly once if one of the given jobs had a runnable task
\* and not at all otherwise; in the latter case it returns 0, has added no job
\* node, and seq_num and the task bindings are as they were at the call.
C7_IterationIffRunnable ==
  \A t \in Threads :
    (th[t].pc = "sj_ret" \/ (th[t].pc = "top_ret" /\ variant = "quincy")) =>
      /\ th[t].rsi_calls = IF RunnableAtEntry(t) THEN 1 ELSE 0
      /\ seq_num = th[t].entry[1].seq + th[t].rsi_calls
      /\ ~RunnableAtEntry(t) =>
           /\ th[t].num_scheduled_tasks = 0
           /\ th[t].aojn_calls = 0
           /\ node_type = th[t].entry[1].nodes
           /\ task_bindings = th[t].entry[1].bindings
           /\ task_state = th[t].entry[1].states

C7_Witness ==
  \E t \in Threads :
    /\ th[t].pc = "sj_ret"
    /\ Len(th[t].jds_ptr) >= 1
    /\ th[t].rsi_calls = 0
    /\ seq_num >= 1

\* ScheduleAllJobs hands the whole queue to one ScheduleJobs call, which runs
\* the solver at most once.
ScheduleAllJobsTakesWholeQueue ==
  \A t \in Threads :
    (th[t].op = "ScheduleAllJobs" /\ th[t].pc # "idle") =>
      /\ Range(th[t].jds_ptr) = th[t].entry[1].queue
      /\ th[t].rsi_calls <= 1
      /\ seq_num <= th[t].entry[1].seq + 1

\* C9 as stated: a thread inside an entry point holds the scheduling mutex.
C9_EntryPointHoldsMutex ==
  \A t \in Threads : th[t].pc \notin {"idle", "aborted"} => lock_owner = {t} /\ lock_count >= 1

\* C10: at most one thread is inside the solver's Run(), and that thread holds
\* the scheduling mutex.
C10_OneSolverRunInFlight ==
  /\ Cardinality(in_solver) <= 1
  /\ \A t \in in_solver : lock_owner = {t} /\ th[t].pc = "run_wait"

C10_Witness ==
  \E t \in in_solver : \E u \in Threads \ {t} : th[u].pc = "q2"

InTaskHandler(t) ==
  th[t].h \in TaskHandlers /\ th[t].pc \in {"h1", "h2", "q2", "h_ret", "apply_ret"}

\* C11 as stated: a thread inside a task event handler holds the scheduling
\* lock from before the base handler runs, the flow graph has not been told
\* anything until the base handler has returned, and when the handler is done
\* the flow graph has been told once, by this handler's own call.
C11_LockBaseThenNotifyOnce ==
  \A t \in Threads :
    InTaskHandler(t) =>
      /\ lock_owner = {t}
      /\ th[t].pc \in {"h1", "h2", "q2"} => th[t].fg_last = <<>>
      /\ th[t].pc \in {"h_ret", "apply_ret"} =>
           /\ th[t].fg_last # <<>>
           /\ th[t].fg_last[1].call = th[t].h
           /\ th[t].fg_last[1].task = th[t].task

\* What FlowScheduler's task handlers do keep: lock, base handler, then one
\* flow-graph call, except that a delegated task's completion makes none.
FlowHandlerOrder ==
  \A t \in Threads :
    (variant = "flow" /\ InTaskHandler(t)) =>
      /\ lock_owner = {t}
      /\ th[t].pc \in {"h1", "h2"} => th[t].fg_last = <<>>
      /\ th[t].pc \in {"h_ret", "apply_ret"} =>
           IF SkipsFlowGraph(th[t].h, th[t].task)
           THEN th[t].fg_last = <<>>
           ELSE th[t].fg_last # <<>> /\ th[t].fg_last[1].call = th[t].h

\* a delegated task's completion handler has returned without a flow-graph call
DelegatedCompletionUnnotified ==
  \E t \in Threads :
    /\ th[t].pc = "h_ret" /\ th[t].h = "HandleTaskCompletion"
    /\ th[t].task \in delegated /\ th[t].fg_last = <<>>

SchedulingOps == {"ScheduleAllJobs", "ScheduleJob", "ScheduleJobs"}
\* thread t is inside RunSchedulingIteration (solver run or delta application)
InIteration(t) ==
  /\ th[t].op \in SchedulingOps
  /\ th[t].pc \in {"run", "run_wait", "convert", "apply", "h1", "h2", "apply_ret",
                   "drop", "rsi_end"}
\* this step is KillRunningTask changing scheduler or flow-graph state
KillTakesEffect ==
  \E u \in Threads :
    /\ th'[u] # th[u]
    /\ th'[u].h = "KillRunningTask"
    /\ SchedState' # SchedState \/ GraphState' # GraphState

\* C12: KillRunningTask changes nothing while a scheduling iteration is under
\* way: its base handler and its TaskKilled call run only when no thread is
\* between the solver's start and the end of delta application, and a kill
\* that arrived during a solver run acts only after that run has returned.
C12_KillAfterIteration ==
  /\ [](\A u \in Threads :
          (th[u].h = "KillRunningTask" /\ th[u].ctx = "late_run"
             /\ th[u].pc \in {"h1", "h2", "q2", "h_ret"}) =>
            seq_num > th[u].entry[1].seq)
  /\ [][KillTakesEffect => \A t \in Threads : ~InIteration(t)]_vars

C12_Witness ==
  \E u \in Threads :
    /\ th[u].h = "KillRunningTask" /\ th[u].ctx = "late_run" /\ th[u].pc = "h_ret"
    /\ task_state[th[u].task] = "ABORTED"
    /\ node_type[th[u].task] = "NONE"

\* the cost model the flag's description names for a value
NamedCostModel(selector) ==
  CASE selector = 0 -> "TrivialCostModel"
    [] selector = 1 -> "RandomCostModel"
    [] selector = 2 -> "SJFCostModel"
    [] selector = 3 -> "QuincyCostModel"
    [] selector = 4 -> "WhareMapCostModel"
    [] selector = 5 -> "CocoCostModel"
    [] selector = 6 -> "OctopusCostModel"
    [] selector = 7 -> "VoidCostModel"
    [] selector = 8 -> "SimulatedQuincyCostModel"
    [] OTHER -> "none"

\* C13: whatever the selector, once the switch has run either the cost model
\* named for the value is installed, or the process has aborted with no cost
\* model and no flow graph; a flow graph exists only with the named model.
C13_NamedCostModelOrFatal ==
  /\ ctor.pc # "switch" =>
       \/ ctor.cost_model = NamedCostModel(ctor.selector) /\ ctor.cost_model # "none" /\ ~aborted
       \/ aborted /\ ctor.pc = "aborted" /\ ctor.cost_model = "none"
            /\ ~ctor.flow_graph /\ ~ctor.dispatcher
  /\ ctor.flow_graph =>
       ctor.cost_model = NamedCostModel(ctor.selector) /\ ctor.cost_model # "none"

C13_Witness ==
  /\ ctor.selector = COST_MODEL_VOID
  /\ ctor.pc = "aborted" /\ aborted /\ ~ctor.flow_graph

\* every node marked SCHEDULED_TASK belongs to a bound task, with its arc to
\* the PU the task is bound to
NodeStateMatchesBinding ==
  \A task \in Tasks :
    node_type[task] = "SCHEDULED_TASK" =>
      /\ task \in DOMAIN task_bindings
      /\ task \in DOMAIN node_arc
      /\ node_arc[task] = task_bindings[task]
\* no task with a delta (other than a NoOp) left unactioned is marked SCHEDULED_TASK
UnactionedNotMarked(t) ==
  \A i \in DOMAIN th[t].deltas :
    (th[t].deltas[i].type # "NOOP" /\ ~th[t].deltas[i].actioned) =>
      node_type[th[t].deltas[i].task_id] # "SCHEDULED_TASK"

\* C14 as stated: when an iteration has dropped its actioned deltas, a node is
\* SCHEDULED_TASK only if its task is bound, and no task whose delta was left
\* unactioned is marked SCHEDULED_TASK.
C14_NodeStateAgreesAfterIteration ==
  \A t \in Threads :
    th[t].pc = "rsi_end" => NodeStateMatchesBinding /\ UnactionedNotMarked(t)

\* FlowScheduler alone keeps it
FlowNodeStateAgreesAfterIteration ==
  \A t \in Threads :
    (variant = "flow" /\ th[t].pc = "rsi_end") =>
      NodeStateMatchesBinding /\ UnactionedNotMarked(t)

\* task x was runnable with an unscheduled node when thread t's iteration
\* began, and the solver's mapping has no pair for its node
Unmapped(t, x) ==
  /\ th[t].iter_entry[1].states[x] = "RUNNABLE"
  /\ th[t].iter_entry[1].nodes[x] = "UNSCHEDULED_TASK"
  /\ \A i \in DOMAIN th[t].task_mappings : th[t].task_mappings[i].src # TaskNodeId(x)
AfterRun(t) ==
  /\ th[t].rsi_calls >= 1
  /\ th[t].pc \in {"convert", "apply", "h1", "h2", "apply_ret", "drop", "rsi_end",
                   "sj_after", "sj_ret", "saj_clear", "top_ret"}

\* C15: a runnable task the solver returned no mapping for gets no delta and no
\* handler call in that iteration, is not counted among the scheduled tasks,
\* stays unbound and Runnable, and its node stays UNSCHEDULED_TASK.
C15_UnmappedTaskStaysUnscheduled ==
  \A t \in Threads : \A x \in Tasks :
    (AfterRun(t) /\ Unmapped(t, x)) =>
      /\ \A i \in DOMAIN th[t].all_deltas : th[t].all_deltas[i].task_id # x
      /\ ~(th[t].pc \in {"h1", "h2", "apply_ret"} /\ th[t].task = x)
      /\ th[t].num_scheduled <=
           Cardinality({i \in DOMAIN th[t].all_deltas :
                          th[t].all_deltas[i].type = "PLACE" /\ th[t].all_deltas[i].task_id # x})
      /\ x \notin DOMAIN task_bindings
      /\ task_state[x] = "RUNNABLE"
      /\ node_type[x] = "UNSCHEDULED_TASK"

C15_Witness ==
  \E t \in Threads : \E x \in Tasks :
    /\ th[t].pc = "sj_ret" /\ th[t].rsi_calls = 1
    /\ Unmapped(t, x)
    /\ th[t].num_scheduled_tasks >= 1
    /\ node_type[x] = "UNSCHEDULED_TASK"

\* thread t's ApplySchedulingDeltas has just finished the turn for a Preempt delta
PreemptApplied(t) ==
  /\ variant = "flow" /\ th[t].pc = "apply" /\ th[t].d_it > 1
  /\ th[t].d_it - 1 <= Len(th[t].deltas)
  /\ th[t].deltas[th[t].d_it - 1].type = "PREEMPT"
  /\ th[t].deltas[th[t].d_it - 1].actioned

\* C16: after FlowScheduler applies a Preempt delta the task is Runnable (not
\* Failed) and unbound, the resource of the delta was the task's resource when
\* the iteration began, the flow graph's last call is TaskEvicted(task, resource)
\* and the task's node is unscheduled again, the delta is actioned, and
\* num_scheduled counts only the Place deltas applied so far.
C16_PreemptEvictsAndRequeues ==
  \A t \in Threads :
    PreemptApplied(t) =>
      LET d == th[t].deltas[th[t].d_it - 1] IN
      /\ task_state[d.task_id] = "RUNNABLE"
      /\ d.task_id \notin DOMAIN task_bindings
      /\ d.task_id \in DOMAIN th[t].iter_entry[1].bindings
      /\ th[t].iter_entry[1].bindings[d.task_id] = d.resource_id
      /\ th[t].fg_last = <<FgCall("HandleTaskEviction", d.task_id, {}, d.resource_id)>>
      /\ node_type[d.task_id] = "UNSCHEDULED_TASK"
      /\ d.task_id \notin DOMAIN node_arc
      /\ d.actioned
      /\ th[t].num_scheduled =
           Cardinality({i \in 1 .. (th[t].d_it - 1) : th[t].deltas[i].type = "PLACE"})

C16_Witness ==
  \E t \in Threads :
    /\ PreemptApplied(t)
    /\ task_state[th[t].deltas[th[t].d_it - 1].task_id] = "RUNNABLE"
    /\ th[t].num_scheduled = 0

\* rows of task_events written for a task
RowsOf(task_id) == {i \in DOMAIN trace.task_events : trace.task_events[i].uid = task_id}
TasksOfTraceJob(job_id) ==
  {task_id \in DOMAIN trace.task_to_job : trace.task_to_job[task_id] = job_id}

\* C19: job_num_tasks[j] is the number of distinct task ids whose task_to_job
\* entry is j, whatever was submitted and however often; a job has a counter
\* exactly if some task maps to it.
C19_JobNumTasksCountsDistinctTasks ==
  /\ \A job_id \in DOMAIN trace.job_num_tasks :
       trace.job_num_tasks[job_id] = Cardinality(TasksOfTraceJob(job_id))
  /\ \A task_id \in DOMAIN trace.task_to_job :
       trace.task_to_job[task_id] \in DOMAIN trace.job_num_tasks

C19_Witness ==
  /\ \E job_id \in DOMAIN trace.job_num_tasks :
       trace.job_num_tasks[job_id] = Cardinality(Tasks)
  /\ \E task_id \in Tasks :
       Cardinality({i \in RowsOf(task_id) : trace.task_events[i].event_type = 0}) >= 2

TaskToJobAppendOnly ==
  [][\A task_id \in DOMAIN trace.task_to_job :
       /\ task_id \in DOMAIN trace'.task_to_job
       /\ trace'.task_to_job[task_id] = trace.task_to_job[task_id]]_vars
RowsCarryMappedJobId ==
  \A i \in DOMAIN trace.task_events :
    LET row == trace.task_events[i] IN
    row.uid \in DOMAIN trace.task_to_job /\ row.job_id = trace.task_to_job[row.uid]

\* C20: a task's entry in task_to_job is never changed or removed once it is
\* there, and every task_events row written for the task carries the job id
\* of that entry.
C20_TaskJobIdNeverChanges == []RowsCarryMappedJobId /\ TaskToJobAppendOnly

\* the rows after the submission rows, for one task, in the order written
Lifecycle(task_id) ==
  SelectSeq(trace.task_events, LAMBDA row : row.uid = task_id /\ row.event_type # 0)
TerminalEvents == {2, 3, 4, 5}
\* schedule and terminal rows alternate, beginning with a schedule row
SingleIncarnation(task_id) ==
  \A i \in DOMAIN Lifecycle(task_id) :
    Lifecycle(task_id)[i].event_type = 1 <=> i % 2 = 1

\* C17: in task_events a schedule row (event_type 1) of a task is followed by
\* at most one terminal row (event_type 2..5) of that task before its next
\* schedule row, and no second schedule row of the task is written before a
\* terminal row.
C17_SingleIncarnationInTrace ==
  \A task_id \in Tasks :
    LET rows == Lifecycle(task_id) IN
    \A i \in DOMAIN rows :
      rows[i].event_type = 1 =>
        /\ (i + 1 \in DOMAIN rows => rows[i + 1].event_type \in TerminalEvents)
        /\ (i + 2 \in DOMAIN rows => rows[i + 2].event_type = 1)

\* total length of the intervals from a schedule row to the next terminal
\* row; since is <<>> while the task is not scheduled
RECURSIVE ScheduledTime(_, _, _)
ScheduledTime(rows, i, since) ==
  IF i > Len(rows) THEN 0
  ELSE IF rows[i].event_type = 1
  THEN ScheduledTime(rows, i + 1, IF since = <<>> THEN <<rows[i].timestamp>> ELSE since)
  ELSE IF since = <<>> THEN ScheduledTime(rows, i + 1, <<>>)
  ELSE (rows[i].timestamp - since[1]) + ScheduledTime(rows, i + 1, <<>>)

\* what each call does to the task's runtime record
RuntimeAccountingPerEvent ==
  [][(~aborted' /\ Len(trace'.task_events) = Len(trace.task_events) + 1) =>
       LET row == trace'.task_events[Len(trace'.task_events)]
           old == trace.task_to_runtime
           new == trace'.task_to_runtime[row.uid] IN
       /\ row.event_type \in TerminalEvents =>
            /\ new.total_runtime = old[row.uid].total_runtime
                                     + (row.timestamp - old[row.uid].last_schedule_time)
            /\ new.num_runs = old[row.uid].num_runs
            /\ new.last_schedule_time = old[row.uid].last_schedule_time
            /\ new.runtime = IF row.event_type = 4
                             THEN row.timestamp - old[row.uid].last_schedule_time
                             ELSE old[row.uid].runtime
       /\ row.event_type = 1 =>
            /\ new.num_runs = old[row.uid].num_runs + 1
            /\ new.last_schedule_time = row.timestamp
            /\ new.total_runtime = old[row.uid].total_runtime
            /\ new.runtime = old[row.uid].runtime]_vars

\* submitted at a, scheduled once at s, completed at c, then shut down
OneRun(task_id) ==
  /\ ~trace.open /\ trace.generate_trace
  /\ Cardinality(RowsOf(task_id)) = Cardinality(TerminalEvents) - 1
  /\ \E i, j, k \in RowsOf(task_id) :
       /\ i < j /\ j < k
       /\ trace.task_events[i].event_type = 0
       /\ trace.task_events[j].event_type = 1
       /\ trace.task_events[k].event_type = 4
ShutdownRowForOneRun ==
  \A task_id \in Tasks :
    OneRun(task_id) =>
      \E i, j, k \in RowsOf(task_id) :
        LET a == trace.task_events[i].timestamp
            ts == trace.task_events[j].timestamp
            c == trace.task_events[k].timestamp
            job_id == trace.task_to_job[task_id] IN
        /\ trace.task_events[i].event_type = 0
        /\ trace.task_events[j].event_type = 1
        /\ trace.task_events[k].event_type = 4
        /\ <<job_id, task_id, job_id, a, c - ts, c - ts, 1>> \in trace.task_runtime_events
RuntimeIsScheduledTime(task_id) ==
  trace.task_to_runtime[task_id].total_runtime = ScheduledTime(Lifecycle(task_id), 1, <<>>)
RuntimeIsScheduledTimeWhenSingleIncarnation ==
  \A task_id \in DOMAIN trace.task_to_runtime :
    SingleIncarnation(task_id) => RuntimeIsScheduledTime(task_id)

\* C18: a task submitted at a, scheduled once at s and completed at c gets the
\* task_runtime row (job, task, job, a, c-s, c-s, 1) at shutdown, and the
\* total_runtime of every task is the total length of the intervals during
\* which it was scheduled.
C18_TotalRuntimeIsScheduledTime ==
  /\ ShutdownRowForOneRun
  /\ \A task_id \in DOMAIN trace.task_to_runtime : RuntimeIsScheduledTime(task_id)

\* C21: two TaskSubmitted calls made with the same job name that lacks the
\* simulation prefix write the same job id.
C21_JobIdDeterminedByName ==
  \A i, k \in DOMAIN trace.task_events :
    LET first == trace.task_events[i]
        second == trace.task_events[k] IN
    (/\ first.event_type = 0 /\ second.event_type = 0
     /\ first.from = second.from
     /\ \E jd \in first.from : ~jd.prefixed)
      => first.job_id = second.job_id

\* rows of machine_events whose descriptors have the same UUID carry the same
\* machine id
SameUuidSameMachineId(same_name) ==
  \A i, k \in DOMAIN trace.machine_events :
    LET first == trace.machine_events[i]
        second == trace.machine_events[k] IN
    (first.rd.uuid = second.rd.uuid /\ same_name[first.rd.name, second.rd.name])
      => first.machine_id = second.machine_id

LookupCall(task_id) ==
  \/ TaskScheduled(task_id) \/ TaskCompleted(task_id) \/ TaskEvicted(task_id)
  \/ TaskFailed(task_id) \/ TaskKilled(task_id)
NeverSubmitted(task_id) ==
  task_id \notin DOMAIN trace.task_to_job \/ task_id \notin DOMAIN trace.task_to_runtime

\* C23: with tracing on, TaskScheduled, TaskCompleted, TaskEvicted, TaskFailed
\* or TaskKilled for a task without a job entry or runtime record ends the
\* process, and writes no task_events row and changes no runtime record.
C23_LookupOfUnknownTaskIsFatal ==
  [][\A task_id \in Tasks :
       (trace.generate_trace /\ NeverSubmitted(task_id) /\ LookupCall(task_id)) =>
         /\ aborted'
         /\ trace'.fatal = "Must be non NULL"
         /\ trace'.task_events = trace.task_events
         /\ trace'.task_to_runtime = trace.task_to_runtime
         /\ trace'.task_to_job = trace.task_to_job]_vars

C23_Witness ==
  /\ aborted /\ trace.fatal = "Must be non NULL"
  /\ Len(trace.task_events) >= 1
  /\ \E task_id \in Tasks : NeverSubmitted(task_id)

\* the tasks the cost model holds preferred machines for, and the block
\* counts of a task's file set
CostedTasks == {task_id \in Tasks : HasMachineMap(task_id)}
TotalOf(task_id) == SumBlocks(cost_model.file_map[task_id])
LocalBlocksOf(task_id, machine) == MachineFrequency(cost_model.file_map[task_id])[machine]
RackBlocksOf(task_id, rack) == RackFrequency(cost_model.file_map[task_id])[rack]

\* C24 as stated: the cost stored for a preferred machine m in rack r is
\* (total - rack_blocks(r) - local_blocks(m)) * core_transfer_cost
\* + (rack_blocks(r) - local_blocks(m)) * tor_transfer_cost over the inclusive counts
C24_PreferredMachineCostInclusive ==
  \A task_id \in CostedTasks : \A machine \in PreferenceArcsResult(task_id) :
    ResourceNodeCostResult(task_id, machine) =
      (TotalOf(task_id) - RackBlocksOf(task_id, MachineToRack(machine))
         - LocalBlocksOf(task_id, machine)) * cost_model.core_transfer_cost
      + (RackBlocksOf(task_id, MachineToRack(machine)) - LocalBlocksOf(task_id, machine))
          * cost_model.tor_transfer_cost

\* C24: the cost stored for a preferred machine m in rack r is
\* (total - rack_blocks(r)) * core_transfer_cost
\* + (rack_blocks(r) - local_blocks(m)) * tor_transfer_cost over the inclusive
\* counts: the blocks outside the rack cross the core, the blocks of the rack
\* that are not on the machine cross the top-of-rack switch
C24_PreferredMachineCost ==
  \A task_id \in CostedTasks : \A machine \in PreferenceArcsResult(task_id) :
    ResourceNodeCostResult(task_id, machine) =
      (TotalOf(task_id) - RackBlocksOf(task_id, MachineToRack(machine)))
          * cost_model.core_transfer_cost
      + (RackBlocksOf(task_id, MachineToRack(machine)) - LocalBlocksOf(task_id, machine))
          * cost_model.tor_transfer_cost

\* a preferred machine with blocks on it, blocks elsewhere in its rack and
\* blocks outside its rack, under non-zero transfer costs
C24_Witness ==
  \E task_id \in CostedTasks : \E machine \in PreferenceArcsResult(task_id) :
    /\ 0 < LocalBlocksOf(task_id, machine)
    /\ LocalBlocksOf(task_id, machine) < RackBlocksOf(task_id, MachineToRack(machine))
    /\ RackBlocksOf(task_id, MachineToRack(machine)) < TotalOf(task_id)
    /\ cost_model.core_transfer_cost > 0 /\ cost_model.tor_transfer_cost > 0

\* the blocks of a file set that are stored on a machine, and in a rack (a
\* file counts once for a rack, however many machines of the rack hold it)
BlocksOnMachine(file_set, machine) ==
  SumBlocks({f \in file_set : machine \in GetMachines(f)})
BlocksInRack(file_set, rack) ==
  SumBlocks({f \in file_set : \E machine \in GetMachines(f) : MachineToRack(machine) = rack})

\* C25: after AddTask(t), machine m is in GetTaskPreferenceArcs(t) iff
\* machine_frequency[m] / total_blocks >= delta_preferred_machine, where
\* machine_frequency[m] sums the blocks of the files of t's file set stored
\* on m; a machine holding none of the files is not preferred
C25_MachinePreferredIffAtLeastThreshold ==
  \A task_id \in CostedTasks : \A machine \in CostMachines :
    LET file_set == cost_model.file_map[task_id]
        delta == cost_model.proportion_machine_preferred
    IN /\ machine \in PreferenceArcsResult(task_id)
            <=> BlocksOnMachine(file_set, machine) * delta[2] >= delta[1] * SumBlocks(file_set)
       /\ BlocksOnMachine(file_set, machine) = 0 => machine \notin PreferenceArcsResult(task_id)

\* one machine exactly at the threshold and preferred, one below it and one
\* that holds none of the task's files
C25_Witness ==
  \E task_id \in CostedTasks : \E at, below, none \in CostMachines :
    LET file_set == cost_model.file_map[task_id]
        delta == cost_model.proportion_machine_preferred
    IN /\ BlocksOnMachine(file_set, at) * delta[2] = delta[1] * SumBlocks(file_set)
       /\ at \in PreferenceArcsResult(task_id)
       /\ 0 < BlocksOnMachine(file_set, below)
       /\ BlocksOnMachine(file_set, below) * delta[2] < delta[1] * SumBlocks(file_set)
       /\ BlocksOnMachine(file_set, none) = 0

\* C26: after AddTask(t), rack r is in GetTaskEquivClasses(t) iff
\* rack_frequency[r] / total_blocks > delta_preferred_rack, strictly, where a
\* file's blocks count once per rack; the cost stored for a preferred rack
\* is (total - rack_blocks(r)) * core_transfer_cost + rack_blocks(r) * tor_transfer_cost
C26_RackPreferredIffAboveThreshold ==
  \A task_id \in CostedTasks : \A rack \in CostRacks :
    LET file_set == cost_model.file_map[task_id]
        delta == cost_model.proportion_rack_preferred
        rack_blocks == BlocksInRack(file_set, rack)
        total == SumBlocks(file_set)
    IN /\ rack \in EquivClassesResult(task_id) <=> rack_blocks * delta[2] > delta[1] * total
       /\ rack \in EquivClassesResult(task_id) =>
            cost_model.preferred_rack_map[task_id][rack] =
              (total - rack_blocks) * cost_model.core_transfer_cost
                + rack_blocks * cost_model.tor_transfer_cost

\* a rack exactly at the threshold and not preferred, and a preferred rack
\* two of whose machines hold the same file of the task
C26_Witness ==
  \E task_id \in CostedTasks : \E at, above \in CostRacks :
    LET file_set == cost_model.file_map[task_id]
        delta == cost_model.proportion_rack_preferred
    IN /\ BlocksInRack(file_set, at) * delta[2] = delta[1] * SumBlocks(file_set)
       /\ at \notin EquivClassesResult(task_id)
       /\ above \in EquivClassesResult(task_id)
       /\ \E f \in file_set :
            Cardinality({m \in GetMachines(f) : MachineToRack(m) = above}) > 1
       /\ cost_model.core_transfer_cost > 0 /\ cost_model.tor_transfer_cost > 0

\* every file of the task's file set is stored on the machine and nowhere else
AllBlocksOn(task_id, machine) ==
  \A f \in cost_model.file_map[task_id] : GetMachines(f) = {machine}

\* C27: if every block of t's file set is stored on the single machine A,
\* GetTaskPreferenceArcs(t) is exactly [A] and TaskToResourceNodeCost(t, A) is
\* 0, whatever the transfer costs
C27_FullLocalityCostsNothing ==
  \A task_id \in CostedTasks : \A machine \in CostMachines :
    AllBlocksOn(task_id, machine) =>
      /\ PreferenceArcsResult(task_id) = {machine}
      /\ ResourceNodeCostResult(task_id, machine) = 0

\* a task of several files, all on one machine, under non-zero transfer costs
C27_Witness ==
  \E task_id \in CostedTasks : \E machine \in CostMachines :
    /\ AllBlocksOn(task_id, machine)
    /\ Cardinality(cost_model.file_map[task_id]) > 1
    /\ PreferenceArcsResult(task_id) = {machine}
    /\ cost_model.core_transfer_cost > 0 /\ cost_model.tor_transfer_cost > 0

\* C28: after RemoveMachine(m), and until the machine is added again, no
\* task's GetTaskPreferenceArcs contains m, whatever cost queries and task
\* operations follow
C28_RemovedMachineNotPreferred ==
  \A task_id \in CostedTasks : \A machine \in CostMachines \ cost_model.dfs_machines :
    machine \notin PreferenceArcsResult(task_id)

\* C29: the five queries of the cost model return a value for every task id
\* and every resource or equivalence class, also for a task never added or
\* already removed: no query dereferences a null pointer
C29_QueriesNeverFail == ~cost_model.failed

\* C30: RunSchedulingIteration revisits the time-dependent costs (calls
\* UpdateTimeDependentCosts with exactly the jobs that are not completed,
\* failed or aborted and sets last_updated_time_dependent_costs_ to now) if
\* and only if now - last_update >= the update frequency, for every now, also
\* one smaller than the frequency
C30_RefreshIffFrequencyElapsed ==
  time_costs.iterated =>
    /\ time_costs.updated
         <=> time_costs.cur_time - time_costs.last_before >= time_costs.update_frequency
    /\ time_costs.updated =>
         /\ time_costs.last_updated_time_dependent_costs = time_costs.cur_time
         /\ time_costs.job_vec = ActiveJobs
    /\ ~time_costs.updated =>
         time_costs.last_updated_time_dependent_costs = time_costs.last_before

\* the delta ApplySchedulingDeltas stands on in thread t is a NoOp
AtNoOp(t) ==
  /\ th[t].pc = "apply" /\ th[t].d_it <= Len(th[t].deltas)
  /\ th[t].deltas[th[t].d_it].type = "NOOP"

StepRank(step) ==
  CASE step = "costs" -> 1 [] step = "run" -> 2 [] step = "convert" -> 3
    [] step = "apply" -> 4 [] step = "stats" -> 5
\* the steps after the statistics update of a first iteration
AfterFirstStats(t) ==
  IF th[t].iter_entry # <<>> /\ th[t].iter_entry[1].seq = 0 /\ th[t].steps # <<>>
  THEN Tail(th[t].steps) ELSE th[t].steps

\* C32: an iteration of the FlowScheduler makes its steps in this order:
\* the statistics update if and only if the solver's seq_num is 0, the
\* time-dependent costs, one solver run, the conversion, the deltas one by
\* one, the statistics update; the statistics are updated again only when
\* every delta has had its turn, and no solver run follows a delta
C32_IterationStepsInOrder ==
  \A t \in Threads :
    (variant = "flow" /\ th[t].steps # <<>>) =>
      LET steps == AfterFirstStats(t) IN
      /\ th[t].steps[1] = "stats" <=> th[t].iter_entry[1].seq = 0
      /\ steps # <<>> /\ steps[1] = "costs"
      /\ \A i, j \in DOMAIN steps : i < j => StepRank(steps[i]) <= StepRank(steps[j])
      /\ \A step \in {"costs", "run", "convert", "stats"} :
           Cardinality({i \in DOMAIN steps : steps[i] = step}) <= 1
      /\ steps[Len(steps)] = "stats" =>
           /\ Cardinality({i \in DOMAIN steps : steps[i] = "apply"}) = Len(th[t].all_deltas)
           /\ \E i \in DOMAIN steps : steps[i] = "run"
           /\ \E i \in DOMAIN steps : steps[i] = "convert"

\* a second iteration with one delta has made all its steps, without the
\* statistics update of a first iteration
C32_Witness ==
  \E t \in Threads :
    /\ variant = "flow" /\ th[t].pc = "sj_after" /\ seq_num = 2
    /\ th[t].steps = <<"costs", "run", "convert", "apply", "stats">>

\* the lock guards thread t holds, by where it is: one in ScheduleAllJobs or
\* ScheduleJob, one in ScheduleJobs, one in a handler
GuardsHeld(t) ==
  LET f == th[t]
      outer == IF f.op \in {"ScheduleAllJobs", "ScheduleJob"} THEN 1 ELSE 0
      inner == IF f.op \in {"ScheduleAllJobs", "ScheduleJob", "ScheduleJobs"}
                  /\ f.pc \notin {"idle", "sj_enter", "saj_clear", "top_ret"}
               THEN 1 ELSE 0
      handler == IF f.pc \in {"h1", "h2", "h_ret", "apply_ret"} THEN 1 ELSE 0
  IN IF f.pc \in {"idle", "kill_wait"} THEN 0 ELSE outer + inner + handler
LockBalanced ==
  /\ lock_owner = {} <=> lock_count = 0
  /\ \A t \in Threads :
       IF t \in lock_owner THEN lock_count = GuardsHeld(t)
       ELSE th[t].pc \in {"idle", "kill_wait"}

\* C34: the recursive lock is balanced and never deadlocks: the thread in
\* ScheduleAllJobs / ScheduleJobs takes it again in the handlers that
\* ApplySchedulingDeltas calls, every guard is released when its function
\* returns, so the lock is free when the outermost entry point has returned,
\* and a thread waiting at an entry point goes on eventually (unless a failed
\* check has ended the process)
C34_LockBalancedAndLive ==
  /\ []LockBalanced
  /\ \A t \in Threads : (th[t].pc = "kill_wait") ~> (th[t].pc # "kill_wait" \/ aborted)

\* a thread waits while the other is in a handler called from
\* ApplySchedulingDeltas, holding the lock three times
C34_Witness ==
  \E t, u \in Threads :
    /\ th[t].pc = "kill_wait" /\ ~aborted
    /\ th[u].pc = "h2" /\ th[u].ctx = "apply" /\ th[u].op = "ScheduleAllJobs"
    /\ lock_owner = {u} /\ lock_count = 3

\* what GetTaskPreferenceArcs and GetTaskEquivClasses return for a task
PreferredSetsOf(task_id) ==
  <<IF HasMachineMap(task_id) THEN PreferenceArcsResult(task_id) ELSE {},
    EquivClassesResult(task_id)>>

\* C35: the cost queries are read-only: a call of TaskToResourceNodeCost(t, r)
\* or TaskToEquivClassAggregator(t, ec), for any r and ec, leaves the results of
\* GetTaskPreferenceArcs(t) and GetTaskEquivClasses(t) as they were; the
\* preferred machines and racks of a task change only in AddTask, RemoveTask
\* and RemoveMachine
C35_CostQueriesReadOnly ==
  [][\A task_id \in CostTasks :
       (HasMachineMap(task_id) /\ PreferredSetsOf(task_id)' # PreferredSetsOf(task_id)) =>
         \/ \E file_set \in FileSets : AddTask(task_id, file_set)
         \/ RemoveTask(task_id)
         \/ \E res_id \in CostMachines : CostModelRemoveMachine(res_id)]_vars

\* the tasks for which TaskSubmitted wrote its row
SubmittedTasks == {trace.task_events[i].uid : i \in {j \in DOMAIN trace.task_events :
                                                       trace.task_events[j].event_type = 0}}

C37_FrequenciesOrderedCostsNonNegative ==
  \A task_id \in CostedTasks :
    LET file_set == cost_model.file_map[task_id]
        mf == MachineFrequency(file_set)
        rf == RackFrequency(file_set)
        total == SumBlocks(file_set)
    IN /\ \A machine \in DOMAIN mf :
            /\ MachineToRack(machine) \in DOMAIN rf
            /\ mf[machine] <= rf[MachineToRack(machine)]
            /\ rf[MachineToRack(machine)] <= total
            /\ rf[MachineToRack(machine)] - mf[machine] >= 0
            /\ total - (rf[MachineToRack(machine)] - mf[machine]) - mf[machine] >= 0
       /\ \A rack \in DOMAIN rf : rf[rack] <= total
       /\ (cost_model.core_transfer_cost >= 0 /\ cost_model.tor_transfer_cost >= 0) =>
            /\ \A machine \in PreferenceArcsResult(task_id) :
                 ResourceNodeCostResult(task_id, machine) >= 0
            /\ \A rack \in EquivClassesResult(task_id) :
                 cost_model.preferred_rack_map[task_id][rack] >= 0
            /\ cost_model.cluster_aggregator_cost[task_id] >= 0

\* a task with a file stored on two machines of one rack; one of them is
\* preferred and holds fewer of the task's blocks than its rack, which holds
\* fewer than all of them
C37_Witness ==
  \E task_id \in CostedTasks : \E m1 \in PreferenceArcsResult(task_id) : \E m2 \in CostMachines :
    LET file_set == cost_model.file_map[task_id]
        rack == MachineToRack(m1)
    IN /\ m1 # m2 /\ MachineToRack(m2) = rack
       /\ \E f \in file_set : {m1, m2} \subseteq GetMachines(f)
       /\ 0 < LocalBlocksOf(task_id, m1)
       /\ LocalBlocksOf(task_id, m1) < RackBlocksOf(task_id, rack)
       /\ RackBlocksOf(task_id, rack) < TotalOf(task_id)
       /\ rack \in EquivClassesResult(task_id)
       /\ cost_model.core_transfer_cost > 0 /\ cost_model.tor_transfer_cost > 0

====
